---------------------------- MODULE Spec2Model ----------------------------
(***************************************************************************)
(* A model of the ingestion-and-retrieval engine of privatixai-be.         *)
(*                                                                         *)
(*   Spec      upload_file (router/upload_router.py) and the background    *)
(*             ingestion pipeline it schedules                             *)
(*             (ingestion/ingestion_service_chromadb.py)                   *)
(*   FairSpec  Spec with the fairness of the background task runner        *)
(*   SpecK     calculate_dynamic_k_complex (service/retrieval_service.py)  *)
(*   SpecR     retrieve and its passes (service/retrieval_service.py)      *)
(*   SpecT     retrieve with a failing embedder, index query or blob       *)
(*   SpecX     consent, export and purge (router/privacy_router.py)        *)
(*   SpecE     encrypt_bytes and decrypt_bytes                             *)
(*             (service/encryption_service.py)                             *)
(*   SpecC     fixed_size_chunk and token_chunk (ingestion/chunk.py)       *)
(*   SpecQ     classify_query_complex (service/retrieval_service.py)       *)
(*   SpecS     assemble_snippet (service/retrieval_service.py)             *)
(*   SpecP     purge_vault beside running ingestions                       *)
(*   SpecG     get_or_create_key called by parallel threads                *)
(*   SpecM     _embed_cache read by the event loop, cleared by ingestions  *)
(*   SpecL     rewrite_question, summarize_turn and the remote model       *)
(*                                                                         *)
(* Strings are modelled by their lengths, scores by integers in units of   *)
(* 0.0001, uuid4 identifiers by fresh values.                              *)
(***************************************************************************)
EXTENDS Integers, Sequences, FiniteSets, TLC

(***************************************************************************)
(* Bounds of the model.                                                    *)
(***************************************************************************)
\* number of calls of upload_file; the r-th call draws the file_id r
MaxUploads == 2
\* largest number of chunks token_chunk yields for one file
MaxChunks == 2
\* longest exception text, in characters, beyond the truncation length
MaxMsgExtra == 1
\* largest corpus size passed to calculate_dynamic_k_complex
MaxCorpus == 150
\* largest targeted_docs passed to calculate_dynamic_k_complex
MaxDocs == 3
\* largest number of chunks in the corpus retrieve searches
MaxHits == 3
\* largest number of files in the data directory when export is called
MaxFiles == 3
\* longest plaintext, in bytes, given to encrypt_bytes
MaxPlain == 2
\* longest text, in characters, given to fixed_size_chunk
MaxFixedText == 25
\* longest text, in characters, given to token_chunk
MaxTokenText == 5
\* largest number of whitespace-separated tokens of a classified query
MaxTokens == 13
\* largest number of capitalized words of a classified query
MaxCapitalized == 2
\* worker threads that call the encryption service
MaxThreads == 2
\* last reading of the clock, in seconds, and the largest number of
\* invalidate_retrieval_cache calls
MaxClock == 4
MaxClears == 2
\* settings.CACHE_TTL_SECONDS, scaled down from 3600
CACHE_TTL_SECONDS == 2
\* max_chars of summarize_turn, scaled down from 600
MaxSummaryChars == 3
\* longest chunk text, in characters, given to assemble_snippet
MaxChunkText == 8
\* largest start offset of a chunk in its document
MaxChunkStart == 10
\* settings.SNIPPET_WINDOW_CHARS, scaled down from 240
SNIPPET_WINDOW_CHARS == 2

(***************************************************************************)
(* Program constants.                                                      *)
(***************************************************************************)
\* settings.MAX_FILE_SIZE_MB
MAX_FILE_SIZE_MB == 100
\* settings.MAX_AUDIO_DURATION_MINUTES
MAX_AUDIO_DURATION_MINUTES == 60
\* the [:200] applied to str(e) in the ingestion_error event
ERROR_EVENT_CHARS == 200

SUPPORTED_TEXT_FORMATS == {".txt", ".md", ".pdf", ".docx"}
SUPPORTED_AUDIO_FORMATS == {".mp3"}

\* class IngestionStage
RECEIVED == "received"
EXTRACTING == "extracting"
TRANSCRIBING == "transcribing"
CHUNKING == "chunking"
EMBEDDING == "embedding"
UPSERTING == "upserting"
COMPLETE == "complete"
ERROR == "error"

Files == 1..MaxUploads
\* chunk ids are uuid4().hex values: the i-th id drawn by the task of file f
ChunkIds == Files \X (1..(MaxChunks + 1))

\* Optional[str]: None is <<>>, a string of n characters is <<n>>
None == <<>>
Some(n) == <<n>>

\* exception texts str(e), by length
MsgLens == {ERROR_EVENT_CHARS, ERROR_EVENT_CHARS + MaxMsgExtra}

\* no call of calculate_dynamic_k_complex is in progress / has returned
NoCall == [corpus_size |-> 0, query_class |-> "none",
           targeted_docs |-> None, requested_k |-> None]
NoResult == [k |-> 0, keep_top_m |-> 0, mmr_lambda |-> 0, per_doc_quota |-> None]

\* no call of retrieve is in progress
NoRequest == [query |-> "none", k |-> 0, file_boosts |-> None, file_filter |-> None,
              enable_smart_k |-> FALSE, enable_retry |-> FALSE, stats_ok |-> TRUE]

\* what can be wrong with chunks/<chunk_id>.enc when a snippet is assembled
BlobStates == {"intact", "missing", "truncated", "tampered"}

\* the embedder loads and answers, the index answers, every blob is intact
NoFaults == [embedder_ok |-> TRUE, index |-> "ok",
             blob |-> [c \in 1..MaxHits |-> "intact"]]

VARIABLES
    \* ---- upload_router.py
    status,        \* _status_store: file_id -> {stage, progress, error}
    published,     \* history: the writes to _status_store[file_id], in order
    uploads_bin,   \* uploads/<file_id><suffix> present on disk
    uploads_meta,  \* uploads/<file_id>.meta present on disk
    suffixOf,      \* the suffix of dest_path of file_id
    nextFile,      \* the number of the next upload_file call
    resp,          \* the HTTP status the r-th upload_file call answered with
    \* ---- ingestion_service_chromadb.py (one background task per file_id)
    pc,            \* position of the task of file_id
    chunk_ids,     \* the local list chunk_ids of the task
    blobs,         \* chunks/<chunk_id>.enc present on disk
    transcripts,   \* transcripts/<file_id>.enc present on disk
    index,         \* ids held by the vector index
    taskResult,    \* per task: "none", "returned" or "raised" (to its caller)
    upserted,      \* history: tasks whose add_documents call returned
    failedAt,      \* history: the pc at which the task's exception was raised
    invalidatedBy, \* history: tasks that called invalidate_retrieval_cache
    errorEvent,    \* the "error" field of the ingestion_error event of file_id
    \* ---- retrieval_service.py
    embed_cache,   \* keys of _embed_cache
    kIn,           \* the arguments of a calculate_dynamic_k_complex call
    kOut,          \* the dict it returned (NoResult before the call)
    corpus,        \* what vs_query finds for the query, best score first
    rq,            \* the arguments of a retrieve call
    rPc,           \* the position of the retrieve call
    actual_k,      \* retrieve's actual_k
    per_doc_quota, \* retrieve's per_doc_quota
    section_boost_terms,  \* retrieve's section_boost_terms
    results,       \* retrieve's results
    passes,        \* the _perform_retrieval calls made so far, in order
    faults,        \* the embedder, the index query and chunks/<chunk_id>.enc
    baseline,      \* history: what the same call returned with all blobs intact
    \* ---- privacy_router.py
    dataDir,       \* the files under settings.DATA_PATH, as relative paths
    unreadable,    \* the files zipf.write cannot read
    archive,       \* the entry paths of the zip export_data answered with; None
                   \* once _cleanup has deleted it, before the next request
    \* ---- encryption_service.py
    keyFile,       \* keystore/enc_key.bin: None, or Some(key); Some(0) is the
                   \* file opened for writing and still empty
    ePlain,        \* the plaintext given to encrypt_bytes
    eData,         \* the payload, as returned by encrypt_bytes or as changed since
    eMod,          \* history: what was done to the payload ("none", "flip", "cut")
    eOut,          \* what decrypt_bytes did: the bytes returned, or raised
    ePc,           \* position of the encrypt / decrypt exchange
    \* ---- chunk.py
    chIn,          \* the arguments of a fixed_size_chunk or token_chunk call
    chOut,         \* the call: its position, its list of chunks, its loop
                   \* variable (start, or i), whether the tail was merged
    \* ---- retrieval_service.py, single functions
    qIn,           \* the arguments of a classify_query_complex call, the query
                   \* by the signals the function reads in it
    qOut,          \* the class it returned ("none" before the call)
    snIn,          \* a hit given to assemble_snippet: the length of the text of
                   \* its chunk, its start and end, whether the blob decrypts
    snOut,         \* the snippet returned: the window taken from the text and
                   \* the ellipses added; None before the call
    \* ---- privacy_router.py, purge beside a running ingestion
    purgePc,       \* position of a DELETE /privacy/delete request: "none",
                   \* "reset", then the tree being removed, "validate", "done"
    \* ---- encryption_service.py, called from several worker threads
    gPc,           \* per thread: its position in encrypt_to_file / decrypt_file
    gKey,          \* per thread: the key get_or_create_key returned (0: none yet)
    gCreated,      \* the threads that called AESGCM.generate_key
    gBlob,         \* per thread: the key its blob was encrypted with (0: no blob)
    gRead,         \* per thread: how decrypt_file of its blob ended
    \* ---- retrieval_service.py, _embed_cache used by two threads
    mCache,        \* _embed_cache[query]: None, or Some(ts) of the entry
    mNow,          \* datetime.utcnow(), in seconds
    mPc,           \* position of the embed_query call of the event loop
    mItem,         \* the local `item` of _cache_get
    mRet,          \* what the last embed_query returned: None, or Some(age)
                   \* of the cached entry it returned, Some(0) for a fresh vector
    mClears,       \* number of invalidate_retrieval_cache calls so far
    \* ---- cqr_service.py, llm_service.py, mistral_api_provider.py
    lProvider,     \* LLMService.provider is set (MISTRAL_API_KEY configured)
    lFail,         \* MistralApiProvider._fail_count
    lCircuit,      \* the circuit breaker is open (time < _circuit_open_until)
    lIn,           \* the last rewrite_question / summarize_turn call and what
                   \* the remote API answered to each of its attempts
    lOut           \* how that call ended, and the chat request with it

storeVars == <<status, published, uploads_bin, uploads_meta, suffixOf, nextFile,
               resp, pc, chunk_ids, blobs, transcripts, index,
               taskResult, upserted, failedAt, invalidatedBy, errorEvent>>

ingestVars == <<storeVars, embed_cache>>

kVars == <<kIn, kOut>>

rVars == <<corpus, rq, rPc, actual_k, per_doc_quota, section_boost_terms,
           results, passes>>

fVars == <<faults, baseline>>

\* the variables of the specifications of single functions
xVars == <<dataDir, unreadable, archive>>

eVars == <<keyFile, ePlain, eData, eMod, eOut, ePc>>

cVars == <<chIn, chOut>>

qVars == <<qIn, qOut>>

sVars == <<snIn, snOut>>

pVars == <<purgePc>>

gVars == <<gPc, gKey, gCreated, gBlob, gRead>>

mVars == <<mCache, mNow, mPc, mItem, mRet, mClears>>

lVars == <<lProvider, lFail, lCircuit, lIn, lOut>>

\* the variables of the specifications added last, and all but the own ones
newVars == <<qVars, sVars, pVars, gVars, mVars, lVars>>
restQ == <<sVars, pVars, gVars, mVars, lVars>>
restS == <<qVars, pVars, gVars, mVars, lVars>>
restP == <<qVars, sVars, gVars, mVars, lVars>>
restG == <<qVars, sVars, pVars, mVars, lVars>>
restM == <<qVars, sVars, pVars, gVars, lVars>>
restL == <<qVars, sVars, pVars, gVars, mVars>>

oldPure == <<kVars, xVars, eVars, cVars>>

pureVars == <<oldPure, newVars>>

vars == <<ingestVars, pureVars, rVars, fVars>>

(***************************************************************************)
(* upload_router.py                                                        *)
(***************************************************************************)
\* get_upload_status for a file_id that has no entry
UnknownStatus == [stage |-> "unknown", progress |-> 0, error |-> None]

StatusRecord(stage, progress, error) ==
    [stage |-> stage, progress |-> progress, error |-> error]

\* _set_status(file_id)(stage, progress, error): the entry is replaced
SetStatus(st, f, stage, progress, error) ==
    [st EXCEPT ![f] = StatusRecord(stage, progress, error)]

\* the history of the writes to _status_store[f]
Publish(f, stage, progress) ==
    [published EXCEPT ![f] = Append(@, [stage |-> stage, progress |-> progress])]


\* detect.MIME_TO_SUFFIX, restricted to the content types the model draws
MimeToSuffix(mime) ==
    CASE mime = "text/plain" -> ".txt"
      [] mime = "audio/mpeg" -> ".mp3"
      [] OTHER -> "none"

Supported(sfx) == sfx \in SUPPORTED_TEXT_FORMATS \/ sfx \in SUPPORTED_AUDIO_FORMATS

\* detect.guess_supported_suffix(filename, content, content_type): the
\* filename's suffix, else the declared content type, else the sniffed one
\* (magic is "none" when python-magic is missing or fails); "none" is None
GuessSupportedSuffix(fileSuffix, contentType, magic) ==
    IF Supported(fileSuffix) THEN fileSuffix
    ELSE IF Supported(MimeToSuffix(contentType)) THEN MimeToSuffix(contentType)
    ELSE IF Supported(MimeToSuffix(magic)) THEN MimeToSuffix(magic)
    ELSE "none"

FileSuffixes == {".txt", ".mp3", ".exe"}
ContentTypes == {"text/plain", "audio/mpeg", "application/zip"}
Magics == {"text/plain", "audio/mpeg", "none"}

MaxBytes == MAX_FILE_SIZE_MB * 1024 * 1024
MaxSeconds == MAX_AUDIO_DURATION_MINUTES * 60
\* len(content) of the uploads drawn
Sizes == {1, MaxBytes, MaxBytes + 1}
\* what mutagen reports for an .mp3: its length in seconds, or -1 when
\* MutagenFile raises
Durations == {-1, 0, MaxSeconds, MaxSeconds + 1}

\* the suffixes guess_supported_suffix returns for the uploads drawn
GuessedSuffixes ==
    {GuessSupportedSuffix(fs, ct, mg) :
        fs \in FileSuffixes, ct \in ContentTypes, mg \in Magics}

\* the r-th call of upload_file answers with HTTP status `code`
Respond(r, code) == [resp EXCEPT ![r] = code]

\* upload_file, lines 49-51: no supported suffix, HTTP 400
UploadRejectType ==
    \E sfx \in GuessedSuffixes :
        /\ nextFile \in Files
        /\ sfx = "none"
        /\ nextFile' = nextFile + 1
        /\ resp' = Respond(nextFile, 400)
        /\ UNCHANGED <<status, published, uploads_bin, uploads_meta, suffixOf,
                       pc, chunk_ids, blobs, transcripts, index,
                       taskResult, upserted, failedAt, invalidatedBy, errorEvent,
                       embed_cache>>
    /\ UNCHANGED <<pureVars, rVars, fVars>>

\* upload_file, lines 52-54: content larger than MAX_FILE_SIZE_MB, HTTP 413
UploadRejectSize ==
    \E sfx \in GuessedSuffixes, size \in Sizes :
        /\ nextFile \in Files
        /\ sfx # "none"
        /\ size > MaxBytes
        /\ nextFile' = nextFile + 1
        /\ resp' = Respond(nextFile, 413)
        /\ UNCHANGED <<status, published, uploads_bin, uploads_meta, suffixOf,
                       pc, chunk_ids, blobs, transcripts, index,
                       taskResult, upserted, failedAt, invalidatedBy, errorEvent,
                       embed_cache>>
    /\ UNCHANGED <<pureVars, rVars, fVars>>

\* the duration check of lines 84-89 applies and finds the audio too long
AudioTooLong(sfx, mutagen, duration) ==
    /\ sfx \in SUPPORTED_AUDIO_FORMATS
    /\ sfx = ".mp3"
    /\ mutagen
    /\ duration # -1
    /\ duration # 0
    /\ duration > MaxSeconds

\* what is left in uploads/ of the files written at lines 59 and 73 once the
\* too long audio has been rejected: lines 97-101 unlink dest_path (best
\* effort: `unlinked` is whether that worked)
AfterAudioReject(bin, meta, f, unlinked) ==
    [bin |-> IF unlinked THEN bin \ {f} ELSE bin \cup {f},
     meta |-> meta \cup {f}]

\* upload_file, lines 56-102: the binary and the .meta descriptor are written,
\* the status is set to received, and then the audio is found too long: the
\* status is set to error, dest_path is unlinked, HTTP 413
UploadRejectAudio ==
    \E sfx \in GuessedSuffixes, size \in Sizes, mutagen \in BOOLEAN,
       duration \in Durations, unlinked \in BOOLEAN :
        LET f == nextFile
            left == AfterAudioReject(uploads_bin, uploads_meta, f, unlinked)
        IN  /\ nextFile \in Files
            /\ sfx # "none"
            /\ size <= MaxBytes
            /\ AudioTooLong(sfx, mutagen, duration)
            /\ nextFile' = nextFile + 1
            /\ suffixOf' = [suffixOf EXCEPT ![f] = sfx]
            /\ uploads_bin' = left.bin
            /\ uploads_meta' = left.meta
            /\ status' = SetStatus(SetStatus(status, f, RECEIVED, 5, None),
                                   f, ERROR, 100, Some(28))
            /\ published' = [published EXCEPT ![f] =
                    <<[stage |-> RECEIVED, progress |-> 5],
                      [stage |-> ERROR, progress |-> 100]>>]
            /\ resp' = Respond(f, 413)
            /\ UNCHANGED <<pc, chunk_ids, blobs, transcripts, index,
                           taskResult, upserted, failedAt, invalidatedBy, errorEvent,
                           embed_cache>>
    /\ UNCHANGED <<pureVars, rVars, fVars>>

\* upload_file, lines 56-116: the upload is stored, its status is received,
\* run_ingestion is added to the background tasks, {"file_id": ...} is returned
UploadAccept ==
    \E sfx \in GuessedSuffixes, size \in Sizes, mutagen \in BOOLEAN,
       duration \in Durations :
        LET f == nextFile
        IN  /\ nextFile \in Files
            /\ sfx # "none"
            /\ size <= MaxBytes
            /\ ~AudioTooLong(sfx, mutagen, duration)
            /\ nextFile' = nextFile + 1
            /\ suffixOf' = [suffixOf EXCEPT ![f] = sfx]
            /\ uploads_bin' = uploads_bin \cup {f}
            /\ uploads_meta' = uploads_meta \cup {f}
            /\ status' = SetStatus(status, f, RECEIVED, 5, None)
            /\ published' = Publish(f, RECEIVED, 5)
            /\ pc' = [pc EXCEPT ![f] = "queued"]
            /\ resp' = Respond(f, 200)
            /\ UNCHANGED <<chunk_ids, blobs, transcripts, index, taskResult,
                           upserted, failedAt, invalidatedBy, errorEvent, embed_cache>>
    /\ UNCHANGED <<pureVars, rVars, fVars>>

(***************************************************************************)
(* ingestion_service_chromadb.py: the task run_ingestion of one file_id.   *)
(* pc: "none" (not scheduled), "queued", then the stage being executed     *)
(* inside the try block: "extract" (extract_text or transcribe_audio, then *)
(* normalize_text), "chunk" (token_chunk), "encrypt" (the for loop),       *)
(* "upsert" (add_documents), "post" and "emit" (the statements after the   *)
(* complete write), and "done".                                            *)
(***************************************************************************)
IsAudio(f) == suffixOf[f] \in SUPPORTED_AUDIO_FORMATS
IsText(f) == suffixOf[f] \in SUPPORTED_TEXT_FORMATS

\* the first stage published by ingest_text_file (line 46) and by the audio
\* branch of ingest_file_any (line 144)
FirstStage(f) == IF IsText(f) THEN EXTRACTING ELSE TRANSCRIBING

\* ingest_file_any lines 139-144 / ingest_text_file line 46
StartTask(f) ==
    /\ pc[f] = "queued"
    /\ IsText(f) \/ IsAudio(f)
    /\ status' = SetStatus(status, f, FirstStage(f), 10, None)
    /\ published' = Publish(f, FirstStage(f), 10)
    /\ pc' = [pc EXCEPT ![f] = "extract"]
    /\ UNCHANGED <<uploads_bin, uploads_meta, suffixOf, nextFile, resp,
                   chunk_ids, blobs, transcripts, index, taskResult,
                   upserted, failedAt, invalidatedBy, errorEvent, embed_cache>>
    /\ UNCHANGED <<pureVars, rVars, fVars>>

\* lines 48-51 (text) and 146-153 (audio, which also stores the encrypted
\* transcript): the text is extracted and normalized, chunking is published
Extract(f) ==
    /\ pc[f] = "extract"
    /\ transcripts' = IF IsAudio(f) THEN transcripts \cup {f} ELSE transcripts
    /\ status' = SetStatus(status, f, CHUNKING, 25, None)
    /\ published' = Publish(f, CHUNKING, 25)
    /\ pc' = [pc EXCEPT ![f] = "chunk"]
    /\ UNCHANGED <<uploads_bin, uploads_meta, suffixOf, nextFile, resp,
                   chunk_ids, blobs, index, taskResult, upserted, failedAt,
                   invalidatedBy, errorEvent, embed_cache>>
    /\ UNCHANGED <<pureVars, rVars, fVars>>

\* Chunk with the embedding stage published at a progress below the one of
\* the chunking stage
Chunk_LowProgress(f) ==
    /\ pc[f] = "chunk"
    /\ status' = SetStatus(status, f, EMBEDDING, 20, None)
    /\ published' = Publish(f, EMBEDDING, 20)
    /\ pc' = [pc EXCEPT ![f] = "encrypt"]
    /\ UNCHANGED <<uploads_bin, uploads_meta, suffixOf, nextFile, resp,
                   chunk_ids, blobs, transcripts, index, taskResult, upserted,
                   failedAt, invalidatedBy, errorEvent, embed_cache>>
    /\ UNCHANGED <<pureVars, rVars, fVars>>

\* lines 56-65 / 157-165: token_chunk yields the list chunks (of at most
\* MaxChunks entries), embedding is published
Chunk(f) ==
    /\ pc[f] = "chunk"
    /\ status' = SetStatus(status, f, EMBEDDING, 45, None)
    /\ published' = Publish(f, EMBEDDING, 45)
    /\ pc' = [pc EXCEPT ![f] = "encrypt"]
    /\ UNCHANGED <<uploads_bin, uploads_meta, suffixOf, nextFile, resp,
                   chunk_ids, blobs, transcripts, index, taskResult, upserted, failedAt,
                   invalidatedBy, errorEvent, embed_cache>>
    /\ UNCHANGED <<pureVars, rVars, fVars>>

\* uuid.uuid4().hex of line 92 / 172: an id no other chunk has
NewChunkId(f) == <<f, Len(chunk_ids[f]) + 1>>

\* EncryptChunk without the encrypt_to_file call: the id is drawn and kept
\* for the upsert, no blob is written
EncryptChunk_NoBlob(f) ==
    /\ pc[f] = "encrypt"
    /\ Len(chunk_ids[f]) < MaxChunks
    /\ chunk_ids' = [chunk_ids EXCEPT ![f] = Append(@, NewChunkId(f))]
    /\ UNCHANGED <<status, published, uploads_bin, uploads_meta, suffixOf,
                   nextFile, resp, pc, blobs, transcripts, index, taskResult,
                   upserted, failedAt, invalidatedBy, errorEvent, embed_cache>>
    /\ UNCHANGED <<pureVars, rVars, fVars>>

\* one iteration of the for loop, lines 91-111 / 171-210, taken while chunks
\* has a further entry: a new chunk_id is appended to chunk_ids and the chunk
\* text is encrypted to chunks/<id>.enc
EncryptChunk(f) ==
    /\ pc[f] = "encrypt"
    /\ Len(chunk_ids[f]) < MaxChunks
    /\ chunk_ids' = [chunk_ids EXCEPT ![f] = Append(@, NewChunkId(f))]
    /\ blobs' = blobs \cup {NewChunkId(f)}
    /\ UNCHANGED <<status, published, uploads_bin, uploads_meta, suffixOf,
                   nextFile, resp, pc, transcripts, index, taskResult,
                   upserted, failedAt, invalidatedBy, errorEvent, embed_cache>>
    /\ UNCHANGED <<pureVars, rVars, fVars>>

\* LoopDone with invalidate_retrieval_cache called before the upsert
LoopDone_Invalidates(f) ==
    /\ pc[f] = "encrypt"
    /\ status' = SetStatus(status, f, UPSERTING, 70, None)
    /\ published' = Publish(f, UPSERTING, 70)
    /\ pc' = [pc EXCEPT ![f] = "upsert"]
    /\ embed_cache' = {}
    /\ invalidatedBy' = invalidatedBy \cup {f}
    /\ UNCHANGED <<uploads_bin, uploads_meta, suffixOf, nextFile, resp,
                   chunk_ids, blobs, transcripts, index, taskResult,
                   upserted, failedAt, errorEvent>>
    /\ UNCHANGED <<pureVars, rVars, fVars>>

\* lines 117-118 / 215-216: chunks is exhausted (it held Len(chunk_ids)
\* entries, possibly none), upserting is published
LoopDone(f) ==
    /\ pc[f] = "encrypt"
    /\ status' = SetStatus(status, f, UPSERTING, 70, None)
    /\ published' = Publish(f, UPSERTING, 70)
    /\ pc' = [pc EXCEPT ![f] = "upsert"]
    /\ UNCHANGED <<uploads_bin, uploads_meta, suffixOf, nextFile, resp,
                   chunk_ids, blobs, transcripts, index, taskResult,
                   upserted, failedAt, invalidatedBy, errorEvent, embed_cache>>
    /\ UNCHANGED <<pureVars, rVars, fVars>>

\* vectorstore.chroma_store.add_documents(documents, metadatas, ids): the
\* ids are in the index afterwards
AddDocuments(idx, ids) == idx \cup {ids[i] : i \in 1..Len(ids)}

\* lines 121-123 / 219-221: the single upsert of all chunk ids succeeds,
\* complete is published
Upsert(f) ==
    /\ pc[f] = "upsert"
    /\ index' = AddDocuments(index, chunk_ids[f])
    /\ status' = SetStatus(status, f, COMPLETE, 100, None)
    /\ upserted' = upserted \cup {f}
    /\ published' = Publish(f, COMPLETE, 100)
    /\ pc' = [pc EXCEPT ![f] = "post"]
    /\ UNCHANGED <<uploads_bin, uploads_meta, suffixOf, nextFile, resp,
                   chunk_ids, blobs, transcripts, taskResult, failedAt,
                   invalidatedBy, errorEvent, embed_cache>>
    /\ UNCHANGED <<pureVars, rVars, fVars>>

\* retrieval_service.invalidate_retrieval_cache: _embed_cache.clear()
InvalidateRetrievalCache(cache) == {}

\* lines 124-125 / 222-223: logger.info, then the cache is invalidated
PostComplete(f) ==
    /\ pc[f] = "post"
    /\ embed_cache' = InvalidateRetrievalCache(embed_cache)
    /\ invalidatedBy' = invalidatedBy \cup {f}
    /\ pc' = [pc EXCEPT ![f] = "emit"]
    /\ UNCHANGED <<status, published, uploads_bin, uploads_meta, suffixOf,
                   nextFile, resp, chunk_ids, blobs, transcripts,
                   index, taskResult, upserted, failedAt, errorEvent>>
    /\ UNCHANGED <<pureVars, rVars, fVars>>

\* line 126 / 224: the ingestion_completed event is emitted, the task returns
Finish(f) ==
    /\ pc[f] = "emit"
    /\ pc' = [pc EXCEPT ![f] = "done"]
    /\ taskResult' = [taskResult EXCEPT ![f] = "returned"]
    /\ UNCHANGED <<status, published, uploads_bin, uploads_meta, suffixOf,
                   nextFile, resp, chunk_ids, blobs, transcripts,
                   index, upserted, failedAt, invalidatedBy, errorEvent,
                   embed_cache>>
    /\ UNCHANGED <<pureVars, rVars, fVars>>

\* a try block that ends before the add_documents call
TryCovers_BeforeUpsert(p) == p \in {"extract", "chunk", "encrypt"}

\* the positions enclosed by try: ... except Exception (lines 45-128 of
\* ingest_text_file, 143-226 of ingest_file_any)
TryCovers(p) == p \in {"extract", "chunk", "encrypt", "upsert", "post", "emit"}

\* the error stored by set_status(IngestionStage.ERROR, 100, str(e)),
\* line 130 / 228, for an exception text of m characters
StatusErrorText(m) == m

\* a handler that logs the exception and leaves the status as it is
HandlerStatus_LogOnly(st, f, m) == st

\* the handler's set_status(IngestionStage.ERROR, 100, str(e)), line 130 / 228
HandlerStatus(st, f, m) == SetStatus(st, f, ERROR, 100, Some(StatusErrorText(m)))

\* str(e)[:200] of the ingestion_error event, line 131 / 229
EventErrorText(m) == IF m > ERROR_EVENT_CHARS THEN ERROR_EVENT_CHARS ELSE m

\* a statement of the stage at pc[f] raises an exception whose text has m
\* characters. The statements after the complete write (logger.info at "post",
\* emit_event at "emit") are inside the same try block as the stages, so an
\* exception of theirs reaches the same handler. Inside the try block the
\* handler of lines 128-131 / 226-229 runs: the status is set to error, the event is emitted and the task
\* returns; nothing written before is removed. An audio task that fails
\* while transcribing may or may not have stored its transcript already.
Fail(f) ==
    /\ pc[f] \in {"extract", "chunk", "encrypt", "upsert", "post", "emit"}
    /\ \E m \in MsgLens, wrote \in BOOLEAN :
        /\ wrote => (IsAudio(f) /\ pc[f] = "extract")
        /\ transcripts' = IF wrote THEN transcripts \cup {f} ELSE transcripts
        /\ failedAt' = [failedAt EXCEPT ![f] = pc[f]]
        /\ IF TryCovers(pc[f])
           THEN /\ status' = HandlerStatus(status, f, m)
                /\ published' = IF status'[f] = status[f] THEN published
                                 ELSE Publish(f, ERROR, 100)
                /\ errorEvent' = [errorEvent EXCEPT ![f] = Some(EventErrorText(m))]
                /\ taskResult' = [taskResult EXCEPT ![f] = "returned"]
           ELSE /\ taskResult' = [taskResult EXCEPT ![f] = "raised"]
                /\ UNCHANGED <<status, published, errorEvent>>
    /\ pc' = [pc EXCEPT ![f] = "done"]
    /\ UNCHANGED <<uploads_bin, uploads_meta, suffixOf, nextFile, resp,
                   chunk_ids, blobs, index, upserted, invalidatedBy, embed_cache>>
    /\ UNCHANGED <<pureVars, rVars, fVars>>

\* the query strings passed to retrieve, the keys of _embed_cache
Queries == {"who", "summary", "Where was Alice born?", "what is the summary"}

TaskStep(f) ==
    \/ StartTask(f)
    \/ Extract(f)
    \/ Chunk(f)
    \/ EncryptChunk(f)
    \/ LoopDone(f)
    \/ Upsert(f)
    \/ PostComplete(f)
    \/ Finish(f)
    \/ Fail(f)

\* the state of a fresh process: empty status store, vault and index
IngestInit ==
    /\ status = [f \in Files |-> UnknownStatus]
    /\ published = [f \in Files |-> <<>>]
    /\ uploads_bin = {}
    /\ uploads_meta = {}
    /\ suffixOf = [f \in Files |-> "none"]
    /\ nextFile = 1
    /\ resp = [f \in Files |-> 0]
    /\ pc = [f \in Files |-> "none"]
    /\ chunk_ids = [f \in Files |-> <<>>]
    /\ blobs = {}
    /\ transcripts = {}
    /\ index = {}
    /\ taskResult = [f \in Files |-> "none"]
    /\ upserted = {}
    /\ failedAt = [f \in Files |-> "none"]
    /\ invalidatedBy = {}
    /\ errorEvent = [f \in Files |-> None]

\* no call of calculate_dynamic_k_complex
KIdle ==
    /\ kIn = NoCall
    /\ kOut = NoResult

\* no call of retrieve
RIdle ==
    /\ corpus = <<>>
    /\ rq = NoRequest
    /\ rPc = "idle"
    /\ actual_k = 0
    /\ per_doc_quota = None
    /\ section_boost_terms = {}
    /\ results = <<>>
    /\ passes = <<>>
    /\ faults = NoFaults
    /\ baseline = None

\* no call of the privacy router
XIdle ==
    /\ dataDir = {}
    /\ unreadable = {}
    /\ archive = None

\* decrypt_bytes has not returned, nor raised
NoOutcome == [raised |-> FALSE, value |-> <<>>]

\* no call of the encryption service
EIdle ==
    /\ keyFile = None
    /\ ePlain = <<>>
    /\ eData = <<>>
    /\ eMod = "none"
    /\ eOut = NoOutcome
    /\ ePc = "idle"

\* no call of a chunker
NoChunkCall == [fn |-> "none", text |-> <<>>, size |-> 0, overlap |-> 0,
                target_tokens |-> 0, min_tokens |-> 0, overlap_tokens |-> 0]
NoChunks == [state |-> "idle", chunks |-> <<>>, i |-> 0, merged |-> FALSE]

CIdle ==
    /\ chIn = NoChunkCall
    /\ chOut = NoChunks

\* no call of classify_query_complex
NoSignals == [tokens |-> 0, terms |-> {}, has_compare |-> FALSE,
              has_operators |-> FALSE, capitalized |-> 0,
              has_history |-> FALSE, targeted_docs |-> None]

QIdle ==
    /\ qIn = NoSignals
    /\ qOut = "none"

\* no call of assemble_snippet
NoHit == [n |-> 0, start |-> 0, end |-> 0, decrypts |-> FALSE]

SIdle ==
    /\ snIn = NoHit
    /\ snOut = None

\* no purge request
PIdle == purgePc = "none"

\* the worker threads that run ingestions
Threads == 1..MaxThreads

\* no thread uses the encryption service
GIdle ==
    /\ gPc = [t \in Threads |-> "idle"]
    /\ gKey = [t \in Threads |-> 0]
    /\ gCreated = {}
    /\ gBlob = [t \in Threads |-> 0]
    /\ gRead = [t \in Threads |-> "none"]

\* no use of the embedding cache
MIdle ==
    /\ mCache = None
    /\ mNow = 0
    /\ mPc = "none"
    /\ mItem = None
    /\ mRet = None
    /\ mClears = 0

\* no call of the query rewriting helpers
NoLlmCall == [fn |-> "none", has_history |-> FALSE, answer_len |-> 0,
              content_len |-> 0, resps |-> <<>>]
NoLlmResult == [llm |-> "none", kind |-> "none", len |-> 0, request |-> "none"]

LIdle ==
    /\ lProvider = FALSE
    /\ lFail = 0
    /\ lCircuit = FALSE
    /\ lIn = NoLlmCall
    /\ lOut = NoLlmResult

OldPureIdle == KIdle /\ XIdle /\ EIdle /\ CIdle

NewIdle == QIdle /\ SIdle /\ PIdle /\ GIdle /\ MIdle /\ LIdle
RestIdleQ == SIdle /\ PIdle /\ GIdle /\ MIdle /\ LIdle
RestIdleS == QIdle /\ PIdle /\ GIdle /\ MIdle /\ LIdle
RestIdleP == QIdle /\ SIdle /\ GIdle /\ MIdle /\ LIdle
RestIdleG == QIdle /\ SIdle /\ PIdle /\ MIdle /\ LIdle
RestIdleM == QIdle /\ SIdle /\ PIdle /\ GIdle /\ LIdle
RestIdleL == QIdle /\ SIdle /\ PIdle /\ GIdle /\ MIdle

\* the embedding cache holds the queries asked before the uploads
Init ==
    /\ IngestInit
    /\ embed_cache = Queries
    /\ KIdle
    /\ XIdle
    /\ EIdle
    /\ CIdle
    /\ RIdle
    /\ NewIdle

Next ==
    \/ UploadRejectType
    \/ UploadRejectSize
    \/ UploadRejectAudio
    \/ UploadAccept
    \/ \E f \in Files : StartTask(f)
    \/ \E f \in Files : Extract(f)
    \/ \E f \in Files : Chunk(f)
    \/ \E f \in Files : EncryptChunk(f)
    \/ \E f \in Files : LoopDone(f)
    \/ \E f \in Files : Upsert(f)
    \/ \E f \in Files : PostComplete(f)
    \/ \E f \in Files : Finish(f)
    \/ \E f \in Files : Fail(f)

Spec == Init /\ [][Next]_vars

\* the background tasks added by upload_file are run: a task that can take
\* a step eventually takes one
FairSpec == Spec /\ \A f \in Files : WF_vars(TaskStep(f))

(***************************************************************************)
(* Properties of upload and ingestion.                                     *)
(***************************************************************************)
Terminal == {COMPLETE, ERROR}

\* the task of f has begun to run
Started(f) == pc[f] \notin {"none", "queued"}

\* the chunk ids drawn by the task of f so far
IdsOf(f) == {chunk_ids[f][i] : i \in 1..Len(chunk_ids[f])}

\* the published order of the stages of f
Pipeline(f) ==
    <<RECEIVED, IF IsText(f) THEN EXTRACTING ELSE TRANSCRIBING,
      CHUNKING, EMBEDDING, UPSERTING, COMPLETE>>

\* C1: once the status of a file_id is complete or error, no later status
\* write changes its stage (a file has one terminal state).
C1_OneTerminalState ==
    [][\A f \in Files :
          status[f].stage \in Terminal => status'[f].stage = status[f].stage]_vars

C3_BlobThenUpsertThenInvalidate ==
    /\ [][/\ \A id \in index' \ index : id \in blobs
          /\ \A f \in invalidatedBy' \ invalidatedBy : f \in upserted
          /\ embed_cache' # embed_cache =>
                \E f \in upserted : f \in invalidatedBy' \ invalidatedBy]_vars
    /\ [](\A f \in Files :
            failedAt[f] \in {"extract", "chunk", "encrypt", "upsert"}
                => f \notin invalidatedBy)

C3_Witness ==
    \E f, g \in Files :
        /\ f \in invalidatedBy /\ IdsOf(f) # {} /\ IdsOf(f) \subseteq index
        /\ embed_cache = {}
        /\ failedAt[g] = "upsert" /\ IdsOf(g) # {} /\ IdsOf(g) \subseteq blobs

\* C4: every chunk id of the vector index has its encrypted blob, and when
\* every task that has started has the status complete the ids of the index
\* are exactly the chunk ids that have a blob.
C4_IndexMatchesBlobs ==
    /\ index \subseteq blobs
    /\ (\A f \in Files : Started(f) => status[f].stage = COMPLETE)
          => index = blobs

C4_Witness ==
    \E f, g \in Files :
        /\ f # g
        /\ status[f].stage = COMPLETE /\ Len(chunk_ids[f]) = MaxChunks
        /\ status[g].stage = COMPLETE /\ Len(chunk_ids[g]) >= 1
        /\ index = blobs

\* C5: an accepted upload (HTTP 200, a file_id returned) has the status
\* received until its task starts; once its task is run the status reaches
\* complete or error; no stage is published a second time.
C5_AcceptedReachesTerminal ==
    /\ [](\A f \in Files :
            /\ resp[f] = 200 => status[f] # UnknownStatus
            /\ pc[f] = "queued" => resp[f] = 200 /\ status[f].stage = RECEIVED)
    /\ \A f \in Files : (resp[f] = 200) ~> (status[f].stage \in Terminal)
    /\ [](\A f \in Files : \A i, j \in 1..Len(published[f]) :
            published[f][i].stage = published[f][j].stage => i = j)

C5_Witness ==
    \E f, g \in Files :
        /\ resp[f] = 200 /\ status[f].stage = ERROR /\ failedAt[f] = "chunk"
        /\ resp[g] = 200 /\ pc[g] = "queued"

\* C6: an exception raised in a stage of an ingestion does not leave the
\* task: the task returns with the status of its file_id set to error, and
\* no blob, transcript or index entry is ever removed.
C6_FailureSetsErrorNoRollback ==
    /\ [][/\ \A f \in Files :
                (failedAt[f] = "none" /\ failedAt'[f] # "none")
                    => /\ status'[f].stage = ERROR
                       /\ taskResult'[f] = "returned"
          /\ blobs \subseteq blobs'
          /\ index \subseteq index'
          /\ transcripts \subseteq transcripts']_vars
    /\ [](\A f \in Files : taskResult[f] # "raised")

C6_Witness ==
    \E f, g \in Files :
        /\ failedAt[f] = "upsert" /\ status[f].stage = ERROR
        /\ taskResult[f] = "returned"
        /\ IdsOf(f) # {} /\ IdsOf(f) \subseteq blobs
        /\ IdsOf(g) # {} /\ IdsOf(g) \subseteq index

\* C7: the error text of the status of a failed ingestion has at most 200
\* characters.
C7_StatusErrorTruncated ==
    \A f \in Files :
        status[f].error # None => status[f].error[1] <= ERROR_EVENT_CHARS

\* C8: an upload answered with a 4xx code has left neither its binary nor
\* a .meta descriptor in the uploads directory, and no ingestion is
\* scheduled for it.
C8_RejectedLeavesNothing ==
    \A r \in Files :
        resp[r] \in {400, 413} =>
            /\ r \notin uploads_bin
            /\ r \notin uploads_meta
            /\ pc[r] = "none"

(***************************************************************************)
(* SpecK: calculate_dynamic_k_complex (retrieval_service.py, 131-197).     *)
(* mmr_lambda is kept in hundredths.                                       *)
(***************************************************************************)
\* class QueryType
FACTOID == "factoid"
SECTION_SUMMARY == "section_summary"
BROAD_SUMMARY == "broad_summary"
COMPARE == "compare"
FILTERING == "filtering"
MULTI_DOC == "multi_doc"
DEFAULT == "default"

QueryTypes == {FACTOID, SECTION_SUMMARY, BROAD_SUMMARY, COMPARE, FILTERING,
               MULTI_DOC, DEFAULT}

Max(a, b) == IF a >= b THEN a ELSE b
Min(a, b) == IF a <= b THEN a ELSE b

\* round(2 * math.sqrt(n)): the integer r with r - 1/2 <= 2*sqrt(n) < r + 1/2,
\* that is (2r-1)^2 <= 16n < (2r+1)^2; 2*sqrt(n) is never half-way between
\* two integers, so the rounding mode does not matter
Round2Sqrt(n) ==
    CHOOSE r \in 0..(2 * n + 1) :
        /\ (2 * r - 1 <= 0 \/ (2 * r - 1) * (2 * r - 1) <= 16 * n)
        /\ (2 * r + 1) * (2 * r + 1) > 16 * n

\* line 146
KBase(corpus_size) == Max(6, Min(Round2Sqrt(corpus_size), 24))

\* lines 149-169: k, keep_top_m and mmr_lambda of a query class
ClassParams(query_class, k_base) ==
    CASE query_class = FACTOID -> [k |-> Max(k_base - 2, 6), m |-> 8, lam |-> 50]
      [] query_class = SECTION_SUMMARY -> [k |-> Min(k_base + 4, 32), m |-> 10, lam |-> 40]
      [] query_class = BROAD_SUMMARY -> [k |-> Min(k_base + 6, 32), m |-> 12, lam |-> 35]
      [] query_class = COMPARE -> [k |-> Min(k_base + 6, 32), m |-> 12, lam |-> 35]
      [] query_class = FILTERING -> [k |-> k_base, m |-> 9, lam |-> 45]
      [] query_class = MULTI_DOC -> [k |-> Min(k_base + 4, 28), m |-> 12, lam |-> 35]
      [] OTHER -> [k |-> k_base, m |-> 10, lam |-> 40]

\* a computation that leaves the class value as it is
ClampToCorpus_Skipped(k, corpus_size) == k

\* line 172: k = min(k, corpus_size)
ClampToCorpus(k, corpus_size) == Min(k, corpus_size)

\* line 177: max(2, (k + targeted_docs - 1) // targeted_docs)
PerDocQuota(k, d) == Max(2, (k + d - 1) \div d)

\* lines 137-197
calculate_dynamic_k_complex(corpus_size, query_class, targeted_docs, requested_k) ==
    IF requested_k # None /\ requested_k[1] > 0
    THEN [k |-> Max(6, Min(requested_k[1], 32)), keep_top_m |-> 10,
          mmr_lambda |-> 40, per_doc_quota |-> None]
    ELSE IF corpus_size <= 0
    THEN [k |-> 8, keep_top_m |-> 8, mmr_lambda |-> 40, per_doc_quota |-> None]
    ELSE LET cp == ClassParams(query_class, KBase(corpus_size))
             k1 == ClampToCorpus(cp.k, corpus_size)
             multi == targeted_docs # None /\ targeted_docs[1] > 1
             q == PerDocQuota(k1, targeted_docs[1])
         IN  [k |-> IF multi THEN Min(q * targeted_docs[1], k1) ELSE k1,
              keep_top_m |-> cp.m,
              mmr_lambda |-> cp.lam,
              per_doc_quota |-> IF multi THEN Some(q) ELSE None]

\* the arguments the function is called with
CorpusSizes == 0..MaxCorpus
TargetedDocs == {None} \cup {Some(d) : d \in 0..MaxDocs}
RequestedKs == {None} \cup {Some(r) : r \in {0, 1, 6, 20, 32, 33}}

InitK ==
    /\ IngestInit
    /\ embed_cache = {}
    /\ RIdle
    /\ XIdle
    /\ EIdle
    /\ CIdle
    /\ NewIdle
    /\ kIn \in [corpus_size : CorpusSizes, query_class : QueryTypes,
                targeted_docs : TargetedDocs, requested_k : RequestedKs]
    /\ kOut = NoResult

\* the call returns its dict
CalcK ==
    /\ kOut = NoResult
    /\ kOut' = calculate_dynamic_k_complex(kIn.corpus_size, kIn.query_class,
                                           kIn.targeted_docs, kIn.requested_k)
    /\ UNCHANGED <<ingestVars, newVars, kIn, xVars, eVars, cVars, rVars, fVars>>

NextK == CalcK

SpecK == InitK /\ [][NextK]_vars

\* the call has returned
KDone == kOut # NoResult

\* the call was made with an explicit requested_k > 0
KExplicit == kIn.requested_k # None /\ kIn.requested_k[1] > 0

\* C9: for every corpus size N >= 0, query class and targeted_docs, the k of
\* calculate_dynamic_k_complex satisfies 6 <= k <= 32, and k <= N whenever
\* N > 0, also when an explicit requested_k is passed.
C9_SmartKBounds ==
    KDone => /\ 6 <= kOut.k
             /\ kOut.k <= 32
             /\ kIn.corpus_size > 0 => kOut.k <= kIn.corpus_size

\* C9 as the code has it: k <= 32 always; with an explicit requested_k > 0,
\* k = clamp(requested_k, 6, 32) whatever N is; without one, k = 8 when N = 0
\* and min(6, N) <= k <= N when N > 0 (so 6 <= k only from N = 6 on).
C9_SmartKBoundsAmended ==
    KDone => /\ kOut.k <= 32
             /\ KExplicit => kOut.k = Max(6, Min(kIn.requested_k[1], 32))
             /\ (~KExplicit /\ kIn.corpus_size = 0) => kOut.k = 8
             /\ (~KExplicit /\ kIn.corpus_size > 0) =>
                    /\ Min(6, kIn.corpus_size) <= kOut.k
                    /\ kOut.k <= kIn.corpus_size

\* a call without requested_k on a corpus of at most 5 chunks naming two
\* documents: the clamp to N brings k under 6 and a quota is chosen
C9_Witness ==
    /\ KDone
    /\ ~KExplicit
    /\ kIn.corpus_size \in 1..5
    /\ kOut.k = kIn.corpus_size
    /\ kIn.targeted_docs = Some(2)
    /\ kOut.per_doc_quota = Some(2)

(***************************************************************************)
(* SpecR: retrieve and its passes (retrieval_service.py).  A hit is a      *)
(* record [chunk_id, file_id, score]; a score of 10000 stands for 1.0.     *)
(***************************************************************************)
\* the score unit: 1.0
UNIT == 10000
\* settings.RETRIEVAL_TOPK
RETRIEVAL_TOPK == 12
\* settings.RETRIEVAL_MIN_SCORE = 0.15
RETRIEVAL_MIN_SCORE == 1500
\* settings.MMR_LAMBDA = 0.5
MMR_LAMBDA == 5000
\* settings.ENABLE_RERANKER
ENABLE_RERANKER == TRUE
\* settings.RERANK_KEEP_TOPN
RERANK_KEEP_TOPN == 6
\* the default of retrieve's overfetch_k
OVERFETCH_K == 32
\* _mmr_rerank's diversity_bonus = 0.05
DIVERSITY_BONUS == 500
\* _calculate_section_boost: 0.05 for a term in the file name, at most 0.15
SECTION_TERM_BOOST == 500
SECTION_BOOST_CAP == 1500
\* _should_retry: scores under 0.3 are low
LOW_CONFIDENCE == 3000
\* the boost chat_router gives to an anchored file: 1.5
ANCHOR_BOOST == 15000

\* the file_ids of the chunks in the index, and the ids a filter can name
CorpusFiles == {"A", "B"}
FilterFiles == CorpusFiles \cup {"X"}

\* the SECTION_TERMS the file_name of a file contains
FileNameTerms(f) == IF f = "A" THEN {"summary"} ELSE {}

\* similarity scores vs_query reports: 0.1, 0.2, 0.4
Scores == {1000, 2000, 4000}

Descending(c, n) == \A i \in 1..(n - 1) : c[i].score >= c[i + 1].score

\* vectorstore.chroma_store.query returns the nearest chunks first
CorporaOfSize(n) ==
    {[i \in 1..n |-> [chunk_id |-> i, file_id |-> c[i].file_id, score |-> c[i].score]] :
        c \in {d \in [1..n -> [file_id : CorpusFiles, score : Scores]] : Descending(d, n)}}

Corpora == UNION {CorporaOfSize(n) : n \in 0..MaxHits}

\* what classify_query_complex and get_section_boost_terms read in a query
QuerySignals(q) ==
    IF q = "summary"
    THEN [tokens |-> 13, terms |-> {"summary"}, has_compare |-> FALSE,
          has_operators |-> FALSE, capitalized |-> 0]
    ELSE IF q = "Where was Alice born?"
    THEN [tokens |-> 4, terms |-> {}, has_compare |-> FALSE,
          has_operators |-> FALSE, capitalized |-> 2]
    ELSE IF q = "what is the summary"
    THEN [tokens |-> 4, terms |-> {"summary"}, has_compare |-> FALSE,
          has_operators |-> FALSE, capitalized |-> 0]
    ELSE [tokens |-> 3, terms |-> {}, has_compare |-> FALSE,
          has_operators |-> FALSE, capitalized |-> 0]

\* a classifier that tests the operators before the section terms
classify_query_complex_OperatorsFirst(sig, has_history, targeted_docs) ==
    LET is_long == sig.tokens > 12
        has_sections == sig.terms # {}
        is_multi_doc == targeted_docs = None \/ targeted_docs[1] > 1
        multi_entity == sig.capitalized >= 2
    IN  IF sig.has_compare \/ multi_entity THEN COMPARE
        ELSE IF sig.has_operators THEN FILTERING
        ELSE IF has_sections /\ is_long THEN SECTION_SUMMARY
        ELSE IF is_multi_doc THEN MULTI_DOC
        ELSE IF sig.tokens <= 8 /\ ~has_sections THEN FACTOID
        ELSE DEFAULT

\* a classifier that tests the broad-summary rule first
classify_query_complex_BroadFirst(sig, has_history, targeted_docs) ==
    LET is_long == sig.tokens > 12
        has_sections == sig.terms # {}
        is_multi_doc == targeted_docs = None \/ targeted_docs[1] > 1
        multi_entity == sig.capitalized >= 2
    IN  IF is_long /\ ~sig.has_operators /\ (has_sections \/ multi_entity)
        THEN BROAD_SUMMARY
        ELSE IF sig.has_compare \/ multi_entity THEN COMPARE
        ELSE IF has_sections /\ is_long THEN SECTION_SUMMARY
        ELSE IF sig.has_operators THEN FILTERING
        ELSE IF is_multi_doc THEN MULTI_DOC
        ELSE IF sig.tokens <= 8 /\ ~has_sections THEN FACTOID
        ELSE DEFAULT

\* lines 57-92
classify_query_complex(sig, has_history, targeted_docs) ==
    LET is_long == sig.tokens > 12
        has_sections == sig.terms # {}
        is_multi_doc == targeted_docs = None \/ targeted_docs[1] > 1
        multi_entity == sig.capitalized >= 2
    IN  IF sig.has_compare \/ multi_entity THEN COMPARE
        ELSE IF has_sections /\ is_long THEN SECTION_SUMMARY
        ELSE IF is_long /\ ~sig.has_operators /\ (has_sections \/ multi_entity)
        THEN BROAD_SUMMARY
        ELSE IF sig.has_operators THEN FILTERING
        ELSE IF is_multi_doc THEN MULTI_DOC
        ELSE IF sig.tokens <= 8 /\ ~has_sections /\ ~sig.has_compare /\ ~multi_entity
        THEN FACTOID
        ELSE DEFAULT

\* lines 121-128
get_section_boost_terms(q) == QuerySignals(q).terms

\* s[:n]
Take(s, n) == SubSeq(s, 1, Min(Max(n, 0), Len(s)))

\* score * factor, the factor in units of 0.0001
MulScore(score, factor) == (score * factor) \div UNIT

\* sorted(..., key=score, reverse=True) and list.sort: stable, hits of equal
\* score keep their order
RECURSIVE InsertByScore(_, _)
InsertByScore(s, h) ==
    IF s = <<>> THEN <<h>>
    ELSE IF Head(s).score >= h.score THEN <<Head(s)>> \o InsertByScore(Tail(s), h)
    ELSE <<h>> \o s

RECURSIVE SortByScoreDesc(_)
SortByScoreDesc(s) ==
    IF s = <<>> THEN <<>>
    ELSE InsertByScore(SortByScoreDesc(SubSeq(s, 1, Len(s) - 1)), s[Len(s)])

\* vectorstore.chroma_store.query(embedding, k): the k nearest chunks
vs_query(c, k) == IF faults.index = "empty" THEN <<>> ELSE Take(c, k)

\* search_top_k, lines 252-268
search_top_k(c, k) == vs_query(c, k)

\* file_boosts.get(file_id, 1.0), line 342
BoostOf(file_boosts, f) ==
    IF file_boosts # None /\ f \in DOMAIN file_boosts[1] THEN file_boosts[1][f] ELSE UNIT

\* _calculate_section_boost, lines 357-393
CalculateSectionBoost(f, terms) ==
    IF terms = {} THEN 0
    ELSE Min(SECTION_TERM_BOOST * Cardinality(terms \cap FileNameTerms(f)),
             SECTION_BOOST_CAP)

\* _apply_filters_and_boosts, lines 314-354
ApplyFiltersAndBoosts(hits, file_boosts, file_filter, terms) ==
    LET allowed_files == IF file_filter # None THEN file_filter[1].file_ids ELSE {}
        allowed_chunks == IF file_filter # None THEN file_filter[1].chunk_ids ELSE {}
        Passes(h) == /\ (allowed_files = {} \/ h.file_id \in allowed_files)
                     /\ (allowed_chunks = {} \/ h.chunk_id \in allowed_chunks)
        kept == SelectSeq(hits, Passes)
        Boosted(h) ==
            [h EXCEPT !.score = MulScore(h.score, BoostOf(file_boosts, h.file_id))
                                + (IF terms # {}
                                   THEN CalculateSectionBoost(h.file_id, terms) ELSE 0)]
    IN  [i \in 1..Len(kept) |-> Boosted(kept[i])]

\* line 605: the confidence floor
AboveFloor(hits) ==
    LET Confident(h) == h.score >= RETRIEVAL_MIN_SCORE
    IN  SelectSeq(hits, Confident)

\* the file_ids of hits in the order of their first appearance
RECURSIVE FilesInOrder(_)
FilesInOrder(hits) ==
    IF hits = <<>> THEN <<>>
    ELSE LET before == FilesInOrder(SubSeq(hits, 1, Len(hits) - 1))
             f == hits[Len(hits)].file_id
         IN  IF \E i \in 1..Len(before) : before[i] = f THEN before
             ELSE Append(before, f)

\* a quota that keeps the whole group
QuotaTake_All(file_hits, q) == file_hits

\* line 658: file_hits[:per_doc_quota]
QuotaTake(file_hits, q) == Take(file_hits, q)

RECURSIVE LimitedHits(_, _, _)
LimitedHits(hits, files, q) ==
    IF files = <<>> THEN <<>>
    ELSE LET InGroup(h) == h.file_id = Head(files)
         IN  QuotaTake(SortByScoreDesc(SelectSeq(hits, InGroup)), q)
             \o LimitedHits(hits, Tail(files), q)

\* _apply_per_doc_quota, lines 634-663
ApplyPerDocQuota(hits, q) ==
    IF q <= 0 THEN hits
    ELSE SortByScoreDesc(LimitedHits(hits, FilesInOrder(hits), q))

\* _diversify_by_file, lines 396-419
DiversifyByFile(hits, k) ==
    IF k <= 0 THEN <<>>
    ELSE LET sorted_hits == SortByScoreDesc(hits)
             firstIds == {sorted_hits[i].chunk_id : i \in
                            {j \in 1..Len(sorted_hits) :
                                \A l \in 1..(j - 1) :
                                    sorted_hits[l].file_id # sorted_hits[j].file_id}}
             IsFirst(h) == h.chunk_id \in firstIds
             IsRest(h) == h.chunk_id \notin firstIds
         IN  Take(SelectSeq(sorted_hits, IsFirst) \o SelectSeq(sorted_hits, IsRest), k)

\* _mmr_rerank, lines 548-579
MmrRerank(hits, keep_top_n, lambda_param) ==
    IF keep_top_n <= 0 \/ hits = <<>> THEN <<>>
    ELSE LET top == Take(SortByScoreDesc(hits), keep_top_n)
             Bonus(i) == IF \E j \in 1..(i - 1) : top[j].file_id = top[i].file_id
                         THEN 0 ELSE DIVERSITY_BONUS
         IN  IF ~ENABLE_RERANKER THEN top
             ELSE SortByScoreDesc(
                    [i \in 1..Len(top) |->
                        [top[i] EXCEPT !.score = MulScore(top[i].score, lambda_param)
                                                 + Bonus(i)]])

\* decrypt_file raises: read_bytes finds no file, decrypt_bytes a payload
\* under 13 bytes, AESGCM.decrypt a tag that does not verify
DecryptFileRaises(chunk_id) == faults.blob[chunk_id] # "intact"

\* a snippet that reads the chunk file without verifying it
assemble_snippet_Unverified(chunk_id) == <<chunk_id>>

\* assemble_snippet, lines 295-311: a window of the text of the chunk, or
\* the empty string <<>> on any exception
assemble_snippet(chunk_id) ==
    IF DecryptFileRaises(chunk_id) THEN <<>> ELSE <<chunk_id>>

\* lines 616-631: the normalized dicts of the hits, with their snippets
Normalize(hits) ==
    [i \in 1..Len(hits) |->
        [chunk_id |-> hits[i].chunk_id, file_id |-> hits[i].file_id,
         score |-> hits[i].score, snippet |-> assemble_snippet(hits[i].chunk_id)]]

\* _perform_retrieval, lines 582-631
PerformRetrieval(c, k, file_boosts, file_filter, overfetch_k, terms, quota) ==
    LET found == search_top_k(c, Max(k, overfetch_k))
        boosted == ApplyFiltersAndBoosts(found, file_boosts, file_filter, terms)
        confident == AboveFloor(boosted)
        limited == IF quota # None /\ quota[1] > 0
                   THEN ApplyPerDocQuota(confident, quota[1]) ELSE confident
        diverse == DiversifyByFile(limited, Max(k, RETRIEVAL_TOPK))
        reranked == IF ENABLE_RERANKER
                    THEN MmrRerank(diverse, RERANK_KEEP_TOPN, MMR_LAMBDA) ELSE diverse
    IN  Normalize(Take(reranked, k))

\* a check of the number of results alone
ShouldRetry_CountOnly(res, k) == Len(res) < 3

\* _should_retry, lines 666-688
ShouldRetry(res, k) ==
    \/ Len(res) < 3
    \/ \A i \in 1..Len(res) : res[i].score < LOW_CONFIDENCE
    \/ /\ Cardinality({res[i].file_id : i \in 1..Len(res)}) <= 1
       /\ Len(res) >= 3

\* lines 463-467, and the "targeted_docs or 1" of lines 470 and 478
TargetedDocsOf(file_filter) ==
    IF file_filter # None /\ file_filter[1].file_ids # {}
    THEN Some(Cardinality(file_filter[1].file_ids))
    ELSE Some(1)

\* the arguments retrieve is called with
RequestedTopK == {2, 8, 24}
FileBoosts == {None, Some([f \in {"A"} |-> ANCHOR_BOOST])}
FileFilters ==
    {None}
    \cup {Some([file_ids |-> fs, chunk_ids |-> {}]) :
            fs \in {t \in SUBSET FilterFiles : Cardinality(t) \in {1, 2}}}
    \cup {Some([file_ids |-> {}, chunk_ids |-> {1}])}

\* get_stats can fail only where it is called, with smart-k enabled
Requests ==
    {r \in [query : Queries, k : RequestedTopK, file_boosts : FileBoosts,
            file_filter : FileFilters, enable_smart_k : BOOLEAN,
            enable_retry : BOOLEAN, stats_ok : BOOLEAN] :
        ~r.stats_ok => r.enable_smart_k}

InitR ==
    /\ IngestInit
    /\ embed_cache = {}
    /\ KIdle
    /\ XIdle
    /\ EIdle
    /\ CIdle
    /\ NewIdle
    /\ corpus \in Corpora
    /\ rq \in Requests
    /\ rPc = "start"
    /\ actual_k = 0
    /\ per_doc_quota = None
    /\ section_boost_terms = {}
    /\ results = <<>>
    /\ passes = <<>>
    /\ faults = NoFaults
    /\ baseline = None

\* lines 451-498: the effective k, the quota and the section terms
SmartK ==
    /\ rPc = "start"
    /\ IF rq.enable_smart_k /\ rq.stats_ok
       THEN LET targeted_docs == TargetedDocsOf(rq.file_filter)
                k_params == calculate_dynamic_k_complex(
                                Len(corpus),
                                classify_query_complex(QuerySignals(rq.query), FALSE,
                                                       targeted_docs),
                                targeted_docs,
                                IF rq.k # 8 THEN Some(rq.k) ELSE None)
            IN  /\ actual_k' = k_params.k
                /\ per_doc_quota' = k_params.per_doc_quota
                /\ section_boost_terms' = get_section_boost_terms(rq.query)
       ELSE /\ actual_k' = rq.k
            /\ per_doc_quota' = None
            /\ section_boost_terms' = {}
    /\ rPc' = "first"
    /\ UNCHANGED <<ingestVars, pureVars, fVars, corpus, rq, results, passes>>

\* the record of one _perform_retrieval call
PassRecord(name, k, file_filter, res) ==
    [pass |-> name, k |-> k, file_filter |-> file_filter, returned |-> Len(res),
     results |-> res]

\* a fallback taken whenever the first pass is empty, filter or not
AfterPass_AnyEmpty(name, res) ==
    IF name = "first" /\ res = <<>> THEN "fallback"
    ELSE IF name # "retry" /\ rq.enable_retry /\ ShouldRetry(res, actual_k) THEN "retry"
    ELSE "done"

\* lines 508 and 519: what retrieve does after a pass
AfterPass(name, res) ==
    IF name = "first" /\ res = <<>> /\ rq.file_filter # None THEN "fallback"
    ELSE IF name # "retry" /\ rq.enable_retry /\ ShouldRetry(res, actual_k) THEN "retry"
    ELSE "done"

\* embed_query, lines 240-249: a query not in the cache goes to the embedder,
\* whose _get_model raises when the local model cannot be loaded
EmbedRaises == rq.query \notin embed_cache /\ ~faults.embedder_ok

\* search_top_k, lines 252-257, handles neither exception
SearchRaises == EmbedRaises \/ faults.index = "raises"

\* _cache_put happens after the embedder returned
CacheAfterSearch == IF EmbedRaises THEN embed_cache ELSE embed_cache \cup {rq.query}

\* lines 501-504: the first pass
FirstPass ==
    /\ rPc = "first"
    /\ IF SearchRaises
       THEN /\ rPc' = "raised"
            /\ UNCHANGED <<results, passes>>
       ELSE LET res == PerformRetrieval(corpus, actual_k, rq.file_boosts,
                                        rq.file_filter, OVERFETCH_K,
                                        section_boost_terms, per_doc_quota)
            IN  /\ results' = res
                /\ passes' = Append(passes,
                                    PassRecord("first", actual_k, rq.file_filter, res))
                /\ rPc' = AfterPass("first", res)
    /\ embed_cache' = CacheAfterSearch
    /\ UNCHANGED <<storeVars, pureVars, fVars, corpus, rq, actual_k, per_doc_quota,
                   section_boost_terms>>

\* lines 508-517: no hit under the filter, one pass without it
GlobalFallback ==
    /\ rPc = "fallback"
    /\ IF SearchRaises
       THEN /\ rPc' = "raised"
            /\ UNCHANGED <<results, passes>>
       ELSE LET k == Max(actual_k, RETRIEVAL_TOPK)
                res == PerformRetrieval(corpus, k, rq.file_boosts, None,
                                        OVERFETCH_K, section_boost_terms, per_doc_quota)
            IN  /\ results' = res
                /\ passes' = Append(passes, PassRecord("fallback", k, None, res))
                /\ rPc' = AfterPass("fallback", res)
    /\ embed_cache' = CacheAfterSearch
    /\ UNCHANGED <<storeVars, pureVars, fVars, corpus, rq, actual_k, per_doc_quota,
                   section_boost_terms>>

\* lines 519-541: the confidence retry, adopted if it finds more
ConfidenceRetry ==
    /\ rPc = "retry"
    /\ IF SearchRaises
       THEN /\ rPc' = "raised"
            /\ UNCHANGED <<results, passes>>
       ELSE LET retry_k == Min((actual_k * 3) \div 2, 32)
                retry_results == PerformRetrieval(corpus, retry_k, rq.file_boosts,
                                                  rq.file_filter, OVERFETCH_K,
                                                  section_boost_terms, per_doc_quota)
            IN  /\ results' = IF Len(retry_results) > Len(results)
                              THEN retry_results ELSE results
                /\ passes' = Append(passes, PassRecord("retry", retry_k,
                                                       rq.file_filter, retry_results))
                /\ rPc' = "done"
    /\ embed_cache' = CacheAfterSearch
    /\ UNCHANGED <<storeVars, pureVars, fVars, corpus, rq, actual_k, per_doc_quota,
                   section_boost_terms>>

NextR ==
    \/ SmartK
    \/ FirstPass
    \/ GlobalFallback
    \/ ConfidenceRetry

SpecR == InitR /\ [][NextR]_vars

(***************************************************************************)
(* retrieve with a failing embedder or index query, and the same call      *)
(* repeated after the blob of one returned chunk was damaged on disk.      *)
(***************************************************************************)
\* the calls of chat_router.py: no file_boosts, the smaller values of top_k
RequestsT ==
    {r \in Requests : /\ r.file_boosts = None
                      /\ r.k \in {2, 8}
                      /\ r.query \in {"who", "summary"}}

InitT ==
    /\ IngestInit
    /\ KIdle
    /\ XIdle
    /\ EIdle
    /\ CIdle
    /\ NewIdle
    /\ corpus \in Corpora
    /\ rq \in RequestsT
    /\ embed_cache \in {{}, {rq.query}}
    /\ rPc = "start"
    /\ actual_k = 0
    /\ per_doc_quota = None
    /\ section_boost_terms = {}
    /\ results = <<>>
    /\ passes = <<>>
    /\ faults \in [embedder_ok : BOOLEAN, index : {"ok", "raises", "empty"},
                   blob : {NoFaults.blob}]
    /\ baseline = None

\* chunks/<chunk_id>.enc of a returned chunk is deleted, cut short or
\* overwritten, and retrieve is called again with the same arguments
Tamper ==
    /\ rPc = "done"
    /\ baseline = None
    /\ \E j \in 1..Len(results), d \in BlobStates \ {"intact"} :
            faults' = [faults EXCEPT !.blob[results[j].chunk_id] = d]
    /\ baseline' = Some(results)
    /\ rPc' = "start"
    /\ actual_k' = 0
    /\ per_doc_quota' = None
    /\ section_boost_terms' = {}
    /\ results' = <<>>
    /\ passes' = <<>>
    /\ UNCHANGED <<ingestVars, pureVars, corpus, rq>>

NextT ==
    \/ SmartK
    \/ FirstPass
    \/ GlobalFallback
    \/ ConfidenceRetry
    \/ Tamper

SpecT == InitT /\ [][NextT]_vars

\* the number of entries of res that come from file f
CountOf(res, f) == Cardinality({i \in 1..Len(res) : res[i].file_id = f})

\* the retrieve call named d > 1 files and chose a quota
QuotaChosen ==
    /\ rq.file_filter # None
    /\ Cardinality(rq.file_filter[1].file_ids) > 1
    /\ per_doc_quota # None

\* C10: when retrieve runs with a file filter naming d > 1 files and a
\* per_doc_quota q is chosen, q is the least integer >= 2 with q * d >= k,
\* and after every pass (first, global fallback, confidence retry) no
\* file_id appears more than q times in the results.
C10_PerDocQuota ==
    (QuotaChosen /\ rPc \in {"fallback", "retry", "done"}) =>
        LET q == per_doc_quota[1]
            d == Cardinality(rq.file_filter[1].file_ids)
        IN  /\ q >= 2
            /\ q * d >= actual_k
            /\ q > 2 => (q - 1) * d < actual_k
            /\ \A f \in FilterFiles : CountOf(results, f) <= q

\* a call that went through the three passes and returned exactly q hits of
\* a file of which more than q passed the confidence floor
C10_Witness ==
    /\ QuotaChosen
    /\ rPc = "done"
    /\ Len(passes) = 3
    /\ \E f \in CorpusFiles :
        /\ CountOf(results, f) = per_doc_quota[1]
        /\ CountOf(AboveFloor(ApplyFiltersAndBoosts(corpus, rq.file_boosts, None,
                                                    section_boost_terms)), f)
           > per_doc_quota[1]

\* the hits that passed the confidence floor in the i-th pass (line 605)
PassConfident(i) ==
    AboveFloor(ApplyFiltersAndBoosts(search_top_k(corpus, Max(passes[i].k, OVERFETCH_K)),
                                     rq.file_boosts, passes[i].file_filter,
                                     section_boost_terms))

\* the file_ids of a list of hits
FileIdsOf(hits) == {hits[i].file_id : i \in 1..Len(hits)}

\* C11: in every pass in which hits of at least 2 distinct file_ids pass the
\* confidence floor, the list the pass returns has a top result, and one of
\* the three results after it comes from another file than the top result.
C11_Diversification ==
    \A i \in 1..Len(passes) :
        Cardinality(FileIdsOf(PassConfident(i))) >= 2 =>
            LET res == passes[i].results
            IN  /\ res # <<>>
                /\ \E j \in 2..Min(4, Len(res)) : res[j].file_id # res[1].file_id

\* the positions of the retry passes among the passes of the call
RetryPasses == {i \in 1..Len(passes) : passes[i].pass = "retry"}

\* the record of the last pass before the retry (the fallback if it ran)
BeforeRetry == passes[Len(passes) - Cardinality(RetryPasses)]

\* C12: in one retrieve call the retry pass runs at most once; it runs exactly
\* when enable_retry is set and the current results are fewer than 3, or all
\* score below 0.3, or are at least 3 of a single file_id; its k is
\* min(floor(1.5 * k), 32); its results replace the current ones only when
\* they are strictly more numerous, so the call never returns fewer results
\* than it held before the retry.
C12_ConfidenceRetry ==
    rPc = "done" =>
        LET held == BeforeRetry.results
            poor == \/ Len(held) < 3
                    \/ \A i \in 1..Len(held) : held[i].score < LOW_CONFIDENCE
                    \/ Len(held) >= 3 /\ Cardinality(FileIdsOf(held)) = 1
        IN  /\ Cardinality(RetryPasses) <= 1
            /\ (RetryPasses # {}) <=> (rq.enable_retry /\ poor)
            /\ \A i \in RetryPasses :
                LET kr == passes[i].k
                    found == passes[i].results
                IN  /\ i = Len(passes)
                    /\ \/ kr = 32 /\ 3 * actual_k >= 64
                       \/ kr < 32 /\ 2 * kr <= 3 * actual_k /\ 3 * actual_k < 2 * kr + 2
                    /\ results = IF Len(found) > Len(held) THEN found ELSE held
            /\ Len(results) >= Len(held)

\* a retry at k' = 3 that found more than the first pass at k = 2 and was
\* adopted
C12_Witness ==
    /\ rPc = "done"
    /\ RetryPasses # {}
    /\ Len(results) > Len(BeforeRetry.results)
    /\ BeforeRetry.results # <<>>

\* the positions of the unfiltered fallback passes among the passes of the call
FallbackPasses == {i \in 1..Len(passes) : passes[i].pass = "fallback"}

\* the hit is one the file_filter admits
InFilter(h, file_filter) ==
    /\ file_filter[1].file_ids # {} => h.file_id \in file_filter[1].file_ids
    /\ file_filter[1].chunk_ids # {} => h.chunk_id \in file_filter[1].chunk_ids

\* C13: in one retrieve call an unfiltered pass at max(k, RETRIEVAL_TOPK) runs
\* once if a file_filter was given and the filtered first pass returned
\* nothing, and not at all otherwise; when it ran and the index holds a hit
\* at or above the confidence floor the call returns a non-empty list; when
\* the filtered first pass returned something, every returned citation is
\* one the filter admits.
C13_GlobalFallback ==
    rPc = "done" =>
        /\ Cardinality(FallbackPasses) <= 1
        /\ (FallbackPasses # {}) <=>
                (rq.file_filter # None /\ passes[1].results = <<>>)
        /\ \A i \in FallbackPasses :
            /\ i = 2
            /\ passes[i].file_filter = None
            /\ passes[i].k >= actual_k /\ passes[i].k >= RETRIEVAL_TOPK
            /\ passes[i].k \in {actual_k, RETRIEVAL_TOPK}
        /\ (/\ FallbackPasses # {}
            /\ \E j \in 1..Len(corpus) : corpus[j].score >= RETRIEVAL_MIN_SCORE)
                => results # <<>>
        /\ (rq.file_filter # None /\ passes[1].results # <<>>)
                => \A j \in 1..Len(results) : InFilter(results[j], rq.file_filter)

\* a call whose filter names a file without chunks: the fallback found hits
\* of another file
C13_Witness ==
    /\ rPc = "done"
    /\ FallbackPasses # {}
    /\ rq.file_filter # None
    /\ results # <<>>
    /\ \E j \in 1..Len(results) : ~InFilter(results[j], rq.file_filter)

\* C14: retrieve returns at most k citations, k being the effective k of the
\* call (the smart-k value, or the requested k when smart-k is off or
\* failed), also after a global fallback and after an adopted retry.
C14_AtMostK == rPc = "done" => Len(results) <= actual_k

\* the second call has returned: the one made after a blob was damaged
SecondCallDone == rPc = "done" /\ baseline # None

\* the chunks among the returned ones whose blob does not decrypt
DamagedIn(res) == {j \in 1..Len(res) : faults.blob[res[j].chunk_id] # "intact"}

\* C15: when the blob of a returned chunk is missing, truncated or fails
\* verification, retrieve still returns that citation, with the empty string
\* as its snippet, and the ids, the order, the scores and the other snippets
\* are those of the call made while the blob was intact.
C15_TamperResilience ==
    SecondCallDone =>
        LET intact == baseline[1]
        IN  /\ Len(results) = Len(intact)
            /\ DamagedIn(results) # {}
            /\ \A j \in 1..Len(results) :
                /\ results[j].chunk_id = intact[j].chunk_id
                /\ results[j].file_id = intact[j].file_id
                /\ results[j].score = intact[j].score
                /\ results[j].snippet =
                        IF j \in DamagedIn(results) THEN <<>> ELSE intact[j].snippet

\* a damaged blob among several citations, the others with their snippets
C15_Witness ==
    /\ SecondCallDone
    /\ Len(results) >= 2
    /\ \E j \in DamagedIn(results) :
            baseline[1][j].snippet # <<>> /\ results[j].snippet = <<>>
    /\ \E j \in 1..Len(results) : results[j].snippet # <<>>

\* C16: on a non-empty corpus retrieve does not raise to its caller, whether
\* corpus statistics, the embedder, the index query or the decryption of a
\* snippet fails: it returns a list.
C16_NeverRaises == corpus # <<>> => rPc # "raised"

(***************************************************************************)
(* router/privacy_router.py: consent, export and purge over the data       *)
(* directory.  A path is the sequence of its components.                   *)
(***************************************************************************)
\* settings.py, lines 83-115: the directories under DATA_PATH
DataDirs == {"uploads", "chunks", "transcripts", "vectorstore", "keystore",
             "privacy", "models", "logs"}

\* _consent_file, lines 24-25
ConsentFile == <<"privacy", "consent.json">>

\* files the data directory can hold: one directly in each directory, one
\* in a subdirectory named keystore of each, and the consent file
CandidateFiles ==
    {<<d, "a.bin">> : d \in DataDirs}
    \cup {<<d, "keystore", "enc_key.bin">> : d \in {"uploads", "vectorstore"}}
    \cup {<<"keystore", "enc_key.bin">>, ConsentFile}

\* p.relative_to(root) for a root directly under DATA_PATH
RelativeTo(path, root) == Tail(path)

\* root.rglob("*") restricted to files, line 60-61
FilesUnder(dir, root) == {f \in dir : f[1] = root}

\* _add_tree_to_zip, lines 57-70: the arcnames written; a file zipf.write
\* fails on is skipped
AddTreeToZip(dir, root, arc_prefix) ==
    {<<arc_prefix>> \o RelativeTo(f, root) : f \in FilesUnder(dir, root) \ unreadable}

\* an export of every directory under DATA_PATH
ExportTrees_WholeDataDir(dir) ==
    UNION {AddTreeToZip(dir, d, d) : d \in DataDirs}

\* lines 92-95: the four trees export_data includes
ExportTrees(dir) ==
    AddTreeToZip(dir, "uploads", "uploads")
    \cup AddTreeToZip(dir, "chunks", "chunks")
    \cup AddTreeToZip(dir, "transcripts", "transcripts")
    \cup AddTreeToZip(dir, "vectorstore", "vectorstore")

\* lines 97-105: the consent file, if it exists and can be read
ConsentEntries(dir) ==
    IF ConsentFile \in dir /\ ConsentFile \notin unreadable
    THEN {<<"privacy", "consent.json">>} ELSE {}

InitX ==
    /\ IngestInit
    /\ embed_cache = {}
    /\ KIdle
    /\ RIdle
    /\ EIdle
    /\ CIdle
    /\ NewIdle
    /\ dataDir \in {d \in SUBSET CandidateFiles : Cardinality(d) <= MaxFiles}
    /\ unreadable \in {u \in SUBSET dataDir : Cardinality(u) <= 1}
    /\ archive = None

\* record_consent, lines 42-54
RecordConsent ==
    /\ ConsentFile \notin dataDir
    /\ dataDir' = dataDir \cup {ConsentFile}
    /\ archive' = None
    /\ UNCHANGED <<ingestVars, newVars, kVars, eVars, cVars, unreadable, rVars, fVars>>

\* export_data, lines 73-130
ExportData ==
    /\ archive' = Some(ExportTrees(dataDir) \cup ConsentEntries(dataDir)
                       \cup {<<"manifest.json">>})
    /\ UNCHANGED <<ingestVars, newVars, kVars, eVars, cVars, dataDir, unreadable, rVars, fVars>>

\* purge_vault, lines 133-156
PurgeVault ==
    /\ \E f \in dataDir : f[1] \in {"uploads", "chunks", "transcripts", "vectorstore"}
    /\ dataDir' = {f \in dataDir :
                    f[1] \notin {"uploads", "chunks", "transcripts", "vectorstore"}}
    /\ unreadable' = unreadable \cap dataDir'
    /\ archive' = None
    /\ UNCHANGED <<ingestVars, newVars, kVars, eVars, cVars, rVars, fVars>>

NextX ==
    \/ RecordConsent
    \/ ExportData
    \/ PurgeVault

SpecX == InitX /\ [][NextX]_vars

\* C17: whatever the data directory holds, the archive export builds has no
\* entry under keystore/; each entry is manifest.json, privacy/consent.json, or
\* a file of the data directory under uploads/, chunks/, transcripts/ or
\* vectorstore/, at its own path.
C17_ExportExclusion ==
    archive # None =>
        \A e \in archive[1] :
            /\ e[1] # "keystore"
            /\ \/ e = <<"manifest.json">>
               \/ e = <<"privacy", "consent.json">> /\ e \in dataDir
               \/ /\ e[1] \in {"uploads", "chunks", "transcripts", "vectorstore"}
                  /\ e \in dataDir

\* an export of a directory that holds the key file and files to export
C17_Witness ==
    /\ archive # None
    /\ <<"keystore", "enc_key.bin">> \in dataDir
    /\ <<"uploads", "keystore", "enc_key.bin">> \in archive[1]
    /\ Cardinality(archive[1]) >= 3

(***************************************************************************)
(* service/encryption_service.py.  AESGCM is the AEAD of the cryptography  *)
(* package: a byte of its output is named by what it was computed from,    *)
(* and a tag verifies only if every byte of it is the one computed from    *)
(* the key, the nonce and the ciphertext at hand.                          *)
(***************************************************************************)
\* os.urandom(12), line 48
NONCE_LEN == 12
\* the shortest payload decrypt_bytes hands to AESGCM, line 55
MIN_PAYLOAD == 13
\* the length of the tag AESGCM appends to the ciphertext
TAG_LEN == 16

\* the keys AESGCM.generate_key can draw, the nonces os.urandom can draw
Keys == {1, 2}
Nonces == {1, 2}

\* the plaintexts: byte strings over two byte values
PlainBytes == {0, 1}
Plaintexts == UNION {[1..n -> PlainBytes] : n \in 0..MaxPlain}

\* the i-th byte of the nonce r
NonceByte(i, r) ==
    [kind |-> "nonce", pos |-> i, key |-> 0, nonce |-> r, text |-> <<>>,
     flipped |-> FALSE]

\* the i-th ciphertext byte: the byte b under the keystream of (key, nonce r)
CtByte(i, key, r, b) ==
    [kind |-> "ct", pos |-> i, key |-> key, nonce |-> r, text |-> <<b>>,
     flipped |-> FALSE]

\* the i-th byte of the tag of the ciphertext of plain under (key, nonce r)
TagByte(i, key, r, plain) ==
    [kind |-> "tag", pos |-> i, key |-> key, nonce |-> r, text |-> plain,
     flipped |-> FALSE]

\* the nonce a 12-byte prefix spells, 0 when it is none that was drawn
NonceOf(prefix) ==
    IF \E r \in Nonces : prefix = [i \in 1..NONCE_LEN |-> NonceByte(i, r)]
    THEN CHOOSE r \in Nonces : prefix = [i \in 1..NONCE_LEN |-> NonceByte(i, r)]
    ELSE 0

\* AESGCM.encrypt: the ciphertext, then the tag
AesGcmEncrypt(key, r, plain) ==
    [i \in 1..Len(plain) |-> CtByte(i, key, r, plain[i])]
    \o [i \in 1..TAG_LEN |-> TagByte(i, key, r, plain)]

\* AESGCM.decrypt: InvalidTag unless the tag is the one of this key, nonce
\* and ciphertext
AesGcmDecrypt(key, r, c) ==
    IF Len(c) < TAG_LEN THEN [raised |-> TRUE, value |-> <<>>]
    ELSE LET n == Len(c) - TAG_LEN
             body == SubSeq(c, 1, n)
             tag == SubSeq(c, n + 1, Len(c))
             genuine == \A i \in 1..n :
                            /\ body[i].kind = "ct"
                            /\ body[i] = CtByte(i, key, r, body[i].text[1])
             plain == [i \in 1..n |-> body[i].text[1]]
         IN  IF /\ r # 0
                /\ genuine
                /\ tag = [i \in 1..TAG_LEN |-> TagByte(i, key, r, plain)]
             THEN [raised |-> FALSE, value |-> plain]
             ELSE [raised |-> TRUE, value |-> <<>>]

\* encrypt_bytes, lines 41-50: nonce + ciphertext
encrypt_bytes(key, r, plaintext) ==
    [i \in 1..NONCE_LEN |-> NonceByte(i, r)] \o AesGcmEncrypt(key, r, plaintext)

\* a decryption that answers with empty bytes where AESGCM raised
decrypt_bytes_Swallow(key, data) ==
    IF Len(data) < MIN_PAYLOAD THEN [raised |-> FALSE, value |-> <<>>]
    ELSE [raised |-> FALSE,
          value |-> AesGcmDecrypt(key, NonceOf(SubSeq(data, 1, NONCE_LEN)),
                                  SubSeq(data, NONCE_LEN + 1, Len(data))).value]

\* decrypt_bytes, lines 53-61
decrypt_bytes(key, data) ==
    IF Len(data) < MIN_PAYLOAD THEN [raised |-> TRUE, value |-> <<>>]
    ELSE AesGcmDecrypt(key, NonceOf(SubSeq(data, 1, NONCE_LEN)),
                       SubSeq(data, NONCE_LEN + 1, Len(data)))

InitE ==
    /\ IngestInit
    /\ embed_cache = {}
    /\ KIdle
    /\ RIdle
    /\ XIdle
    /\ CIdle
    /\ NewIdle
    /\ keyFile \in {None, Some(1)}
    /\ ePlain \in Plaintexts
    /\ eData = <<>>
    /\ eMod = "none"
    /\ eOut = NoOutcome
    /\ ePc = "start"

\* get_or_create_key, lines 22-38, then encrypt_bytes
EncryptBytes ==
    /\ ePc = "start"
    /\ \E r \in Nonces :
        LET key == IF keyFile # None THEN keyFile[1] ELSE 2
        IN  /\ keyFile' = Some(key)
            /\ eData' = encrypt_bytes(key, r, ePlain)
    /\ ePc' = "encrypted"
    /\ UNCHANGED <<ingestVars, newVars, kVars, xVars, cVars, ePlain, eMod, eOut, rVars, fVars>>

\* one byte of the payload is changed (tests/test_encryption.py, line 15)
FlipByte ==
    /\ ePc = "encrypted"
    /\ eMod = "none"
    /\ \E i \in 1..Len(eData) :
            eData' = [eData EXCEPT ![i].flipped = TRUE]
    /\ eMod' = "flip"
    /\ UNCHANGED <<ingestVars, newVars, kVars, xVars, cVars, keyFile, ePlain, eOut, ePc,
                   rVars, fVars>>

\* the payload is cut short
CutShort ==
    /\ ePc = "encrypted"
    /\ eMod = "none"
    /\ \E n \in 0..(Len(eData) - 1) : eData' = SubSeq(eData, 1, n)
    /\ eMod' = "cut"
    /\ UNCHANGED <<ingestVars, newVars, kVars, xVars, cVars, keyFile, ePlain, eOut, ePc,
                   rVars, fVars>>

\* get_or_create_key, then decrypt_bytes
DecryptBytes ==
    /\ ePc = "encrypted"
    /\ eOut' = decrypt_bytes(keyFile[1], eData)
    /\ ePc' = "decrypted"
    /\ UNCHANGED <<ingestVars, newVars, kVars, xVars, cVars, keyFile, ePlain, eData, eMod,
                   rVars, fVars>>

NextE ==
    \/ EncryptBytes
    \/ FlipByte
    \/ CutShort
    \/ DecryptBytes

SpecE == InitE /\ [][NextE]_vars

\* C18: decrypt_bytes returns the plaintext of an unchanged payload of
\* encrypt_bytes; it raises on a payload one byte of which was changed and on
\* a payload cut short, under 13 bytes or not; it returns no other plaintext.
C18_RoundTripAndTamper ==
    ePc = "decrypted" =>
        /\ eMod = "none" => ~eOut.raised /\ eOut.value = ePlain
        /\ eMod # "none" => eOut.raised
        /\ Len(eData) < MIN_PAYLOAD => eOut.raised
        /\ ~eOut.raised => eOut.value = ePlain

\* a payload whose last tag byte was flipped was refused
C18_Witness ==
    /\ ePc = "decrypted"
    /\ eMod = "flip"
    /\ ePlain # <<>>
    /\ eData[Len(eData)].flipped
    /\ eOut.raised

(***************************************************************************)
(* ingestion/chunk.py.  A text is the sequence of its characters; offsets  *)
(* are Python's, from 0.                                                   *)
(***************************************************************************)
\* text[start:end]
Slice(text, start, end) == SubSeq(text, start + 1, end)

\* a chunker that continues where the last chunk ended
NextStart_NoOverlap(end, overlap) == end

\* line 27: start = end - overlap
NextStart(end, overlap) == end - overlap

\* the elements of a set of integers, in increasing order
Ascending(S) ==
    [k \in 1..Cardinality(S) |->
        CHOOSE x \in S : Cardinality({y \in S : y < x}) = k - 1]

\* re.finditer(r"\S+", text), lines 51-53: the spans of the maximal runs of
\* characters other than whitespace
TokenSpans(text) ==
    LET n == Len(text)
        starts == {i \in 0..(n - 1) :
                    text[i + 1] # " " /\ (i = 0 \/ text[i] = " ")}
        ends == {j \in 1..n : text[j] # " " /\ (j = n \/ text[j + 1] = " ")}
    IN  [k \in 1..Cardinality(starts) |->
            <<Ascending(starts)[k], Ascending(ends)[k]>>]

\* the calls of fixed_size_chunk: the sizes and overlaps it accepts and some
\* it refuses
FixedCalls ==
    {[fn |-> "fixed", text |-> [i \in 1..n |-> "a"], size |-> sz, overlap |-> ov,
      target_tokens |-> 0, min_tokens |-> 0, overlap_tokens |-> 0] :
        n \in 0..MaxFixedText, sz \in {0, 1, 2, 3, 10}, ov \in {-1, 0, 1, 2, 3}}

\* the calls of token_chunk, over texts of letters and blanks
TokenCalls ==
    {[fn |-> "token", text |-> t, size |-> 0, overlap |-> 0,
      target_tokens |-> tg, min_tokens |-> mn, overlap_tokens |-> ov] :
        t \in UNION {[1..n -> {"a", " "}] : n \in 0..MaxTokenText},
        tg \in 0..3, mn \in 0..3, ov \in -1..2}

InitC ==
    /\ IngestInit
    /\ embed_cache = {}
    /\ KIdle
    /\ RIdle
    /\ XIdle
    /\ EIdle
    /\ NewIdle
    /\ chIn \in FixedCalls \cup TokenCalls
    /\ chOut = [state |-> "called", chunks |-> <<>>, i |-> 0, merged |-> FALSE]

\* fixed_size_chunk, lines 13-20
FixedEnter ==
    /\ chIn.fn = "fixed"
    /\ chOut.state = "called"
    /\ chOut' = IF chIn.size <= 0 \/ chIn.overlap < 0 \/ chIn.overlap >= chIn.size
                THEN [chOut EXCEPT !.state = "raised"]
                ELSE [chOut EXCEPT !.state = "loop"]
    /\ UNCHANGED <<ingestVars, newVars, kVars, xVars, eVars, chIn, rVars, fVars>>

\* fixed_size_chunk, lines 21-28: one test of the loop condition, and the
\* pass through the body it allows
FixedStep ==
    /\ chIn.fn = "fixed"
    /\ chOut.state = "loop"
    /\ LET n == Len(chIn.text)
           start == chOut.i
           end == Min(start + chIn.size, n)
       IN  chOut' =
            IF ~(start < n) THEN [chOut EXCEPT !.state = "returned"]
            ELSE [chOut EXCEPT
                    !.chunks = Append(@, [start |-> start, end |-> end,
                                          text |-> Slice(chIn.text, start, end)]),
                    !.state = IF end = n THEN "returned" ELSE "loop",
                    !.i = IF end = n THEN @ ELSE NextStart(end, chIn.overlap)]
    /\ UNCHANGED <<ingestVars, newVars, kVars, xVars, eVars, chIn, rVars, fVars>>

\* line 74: the last chunk is too small
TailTooSmall(last_tokens, min_tokens) == last_tokens < Max(1, min_tokens)

\* token_chunk, lines 41-60
TokenEnter ==
    /\ chIn.fn = "token"
    /\ chOut.state = "called"
    /\ chOut' =
        IF \/ chIn.target_tokens <= 0
           \/ chIn.overlap_tokens < 0
           \/ chIn.overlap_tokens >= chIn.target_tokens
        THEN [chOut EXCEPT !.state = "raised"]
        ELSE IF chIn.text = <<>> \/ Len(TokenSpans(chIn.text)) = 0
        THEN [chOut EXCEPT !.state = "returned"]
        ELSE [chOut EXCEPT !.state = "loop"]
    /\ UNCHANGED <<ingestVars, newVars, kVars, xVars, eVars, chIn, rVars, fVars>>

\* token_chunk, lines 61-69: one pass through the loop
TokenStep ==
    /\ chIn.fn = "token"
    /\ chOut.state = "loop"
    /\ LET tokens == TokenSpans(chIn.text)
           n_tokens == Len(tokens)
           step == Max(1, chIn.target_tokens - chIn.overlap_tokens)
           i == chOut.i
           j == Min(i + chIn.target_tokens, n_tokens)
           start_char == tokens[i + 1][1]
           end_char == tokens[j][2]
       IN  chOut' =
            IF ~(i < n_tokens) THEN [chOut EXCEPT !.state = "merge"]
            ELSE [chOut EXCEPT
                    !.chunks = Append(@, [start |-> start_char, end |-> end_char,
                                          text |-> Slice(chIn.text, start_char,
                                                         end_char)]),
                    !.state = IF j >= n_tokens THEN "merge" ELSE "loop",
                    !.i = IF j >= n_tokens THEN @ ELSE i + step]
    /\ UNCHANGED <<ingestVars, newVars, kVars, xVars, eVars, chIn, rVars, fVars>>

\* token_chunk, lines 71-81: the merge of a small tail, and the return
TokenMerge ==
    /\ chIn.fn = "token"
    /\ chOut.state = "merge"
    /\ LET chunks == chOut.chunks
           m == Len(chunks)
       IN  chOut' =
            IF /\ m >= 2
               /\ TailTooSmall(Len(TokenSpans(chunks[m].text)), chIn.min_tokens)
            THEN LET prev_start == chunks[m - 1].start
                     last_end == chunks[m].end
                 IN  [chOut EXCEPT
                        !.chunks = Append(SubSeq(chunks, 1, m - 2),
                                          [start |-> prev_start, end |-> last_end,
                                           text |-> Slice(chIn.text, prev_start,
                                                          last_end)]),
                        !.merged = TRUE,
                        !.state = "returned"]
            ELSE [chOut EXCEPT !.state = "returned"]
    /\ UNCHANGED <<ingestVars, newVars, kVars, xVars, eVars, chIn, rVars, fVars>>

NextC ==
    \/ FixedEnter
    \/ FixedStep
    \/ TokenEnter
    \/ TokenStep
    \/ TokenMerge

SpecC == InitC /\ [][NextC]_vars

\* the arguments fixed_size_chunk accepts
FixedValid == chIn.fn = "fixed" /\ chIn.size > 0 /\ 0 <= chIn.overlap
              /\ chIn.overlap < chIn.size

\* C19: with 0 <= overlap < size, fixed_size_chunk does not raise and makes at
\* most len(text) passes through its loop; the i-th chunk it returns starts at
\* i*(size-overlap) and holds the text from there; every chunk but the last is
\* size long, the last ends at len(text); the chunks cover the text and
\* consecutive ones share exactly overlap characters.
C19_FixedSizeChunk ==
    FixedValid =>
        LET r == chOut.chunks
            n == Len(chIn.text)
        IN  /\ chOut.state # "raised"
            /\ Len(r) <= n
            /\ chOut.state = "returned" =>
                /\ n > 0 => r # <<>> /\ r[Len(r)].end = n
                /\ \A i \in 1..Len(r) :
                    /\ r[i].start = (i - 1) * (chIn.size - chIn.overlap)
                    /\ r[i].start < r[i].end
                    /\ r[i].end - r[i].start <= chIn.size
                    /\ i < Len(r) => r[i].end - r[i].start = chIn.size
                    /\ r[i].text = Slice(chIn.text, r[i].start, r[i].end)
                /\ \A i \in 1..(Len(r) - 1) :
                    /\ r[i].end - r[i + 1].start = chIn.overlap
                    /\ r[i + 1].end > r[i].end

\* the example of tests/test_chunk.py at a hundredth of its lengths
C19_Witness ==
    /\ chIn.fn = "fixed" /\ Len(chIn.text) = 25 /\ chIn.size = 10 /\ chIn.overlap = 2
    /\ chOut.state = "returned"
    /\ Len(chOut.chunks) = 3
    /\ chOut.chunks[1].start = 0 /\ chOut.chunks[1].end = 10
    /\ chOut.chunks[2].start = 8 /\ chOut.chunks[2].end = 18
    /\ chOut.chunks[3].start = 16 /\ chOut.chunks[3].end = 25

\* the arguments of the claim: a non-empty text, 0 <= overlap_tokens < target
TokenValid == chIn.fn = "token" /\ chIn.text # <<>> /\ 0 <= chIn.overlap_tokens
              /\ chIn.overlap_tokens < chIn.target_tokens

\* the tokens of the text that lie in both chunks
SharedTokens(c, d) ==
    {k \in 1..Len(TokenSpans(chIn.text)) :
        LET t == TokenSpans(chIn.text)[k]
        IN  /\ c.start <= t[1] /\ t[2] <= c.end
            /\ d.start <= t[1] /\ t[2] <= d.end}

\* C20: for a non-empty text and 0 <= overlap_tokens < target_tokens the
\* chunks token_chunk returns begin with one that starts at 0, each next
\* chunk starts no later than the one before it ends, and consecutive chunks
\* share exactly overlap_tokens tokens, the last chunk excepted when the tail
\* was merged.
C20_TokenChunkCoverage ==
    (TokenValid /\ chOut.state = "returned") =>
        LET r == chOut.chunks
        IN  /\ r # <<>>
            /\ r[1].start = 0
            /\ \A i \in 1..(Len(r) - 1) :
                /\ r[i + 1].start <= r[i].end
                /\ (chOut.merged /\ i + 1 = Len(r))
                    \/ Cardinality(SharedTokens(r[i], r[i + 1])) = chIn.overlap_tokens

(***************************************************************************)
(* classify_query_complex on its own, over the signals it reads.           *)
(***************************************************************************)
InitQ ==
    /\ IngestInit
    /\ embed_cache = {}
    /\ OldPureIdle
    /\ RestIdleQ
    /\ RIdle
    /\ qIn \in [tokens : 0..MaxTokens, terms : {{}, {"summary"}},
                has_compare : BOOLEAN, has_operators : BOOLEAN,
                capitalized : 0..MaxCapitalized, has_history : BOOLEAN,
                targeted_docs : TargetedDocs]
    /\ qOut = "none"

\* the call returns its class
Classify ==
    /\ qOut = "none"
    /\ qOut' = classify_query_complex(qIn, qIn.has_history, qIn.targeted_docs)
    /\ UNCHANGED <<ingestVars, oldPure, restQ, qIn, rVars, fVars>>

NextQ == Classify

SpecQ == InitQ /\ [][NextQ]_vars

\* the rules of the decision order, each on the signals alone
RuleCompare == qIn.has_compare \/ qIn.capitalized >= 2
RuleSection == qIn.terms # {} /\ qIn.tokens > 12
RuleBroad ==
    /\ qIn.tokens > 12
    /\ ~qIn.has_operators
    /\ (qIn.terms # {} \/ qIn.capitalized >= 2)
RuleFiltering == qIn.has_operators
RuleMultiDoc == qIn.targeted_docs = None \/ qIn.targeted_docs[1] > 1
RuleFactoid ==
    /\ qIn.tokens <= 8
    /\ qIn.terms = {}
    /\ ~qIn.has_compare
    /\ qIn.capitalized < 2

\* C21: classify_query_complex returns the class of the first rule that
\* matches, in the order COMPARE, SECTION_SUMMARY, BROAD_SUMMARY, FILTERING,
\* MULTI_DOC, FACTOID, and DEFAULT when none does.
C21_DecisionOrder ==
    qOut # "none" =>
        /\ (qOut = COMPARE) <=> RuleCompare
        /\ (qOut = SECTION_SUMMARY) <=> (~RuleCompare /\ RuleSection)
        /\ (qOut = BROAD_SUMMARY) <=> (~RuleCompare /\ ~RuleSection /\ RuleBroad)
        /\ (qOut = FILTERING) <=>
                (~RuleCompare /\ ~RuleSection /\ ~RuleBroad /\ RuleFiltering)
        /\ (qOut = MULTI_DOC) <=>
                (/\ ~RuleCompare /\ ~RuleSection /\ ~RuleBroad /\ ~RuleFiltering
                 /\ RuleMultiDoc)
        /\ (qOut = FACTOID) <=>
                (/\ ~RuleCompare /\ ~RuleSection /\ ~RuleBroad /\ ~RuleFiltering
                 /\ ~RuleMultiDoc /\ RuleFactoid)
        /\ (qOut = DEFAULT) <=>
                (/\ ~RuleCompare /\ ~RuleSection /\ ~RuleBroad /\ ~RuleFiltering
                 /\ ~RuleMultiDoc /\ ~RuleFactoid)

\* a long query with operators and section terms: the section rule wins
C21_Witness ==
    /\ qOut = SECTION_SUMMARY
    /\ qIn.has_operators
    /\ RuleMultiDoc

\* C30: classify_query_complex never returns BROAD_SUMMARY; an input that
\* satisfies the broad-summary rule is classified COMPARE or SECTION_SUMMARY.
C30_NeverBroadSummary ==
    qOut # "none" =>
        /\ qOut # BROAD_SUMMARY
        /\ RuleBroad => qOut \in {COMPARE, SECTION_SUMMARY}

\* a classified query that satisfies the broad-summary rule
C30_Witness ==
    /\ qOut # "none"
    /\ RuleBroad
    /\ qIn.terms = {}

(***************************************************************************)
(* retrieve: the class of the query and what follows from it.              *)
(***************************************************************************)
\* line 470: the class retrieve computes for the request
ComplexQueryType ==
    classify_query_complex(QuerySignals(rq.query), FALSE, TargetedDocsOf(rq.file_filter))

\* retrieve went through its smart-k block without an exception
SmartKDone == rPc # "start" /\ rq.enable_smart_k /\ rq.stats_ok

\* all chunks of the index belong to one file
OneFileCorpus ==
    /\ corpus # <<>>
    /\ \A i \in 1..Len(corpus) : corpus[i].file_id = corpus[1].file_id

\* C22: the short factual question 'Where was Alice born?' asked against a
\* one-file corpus is classified FACTOID and retrieved with the FACTOID
\* parameters, k = max(k_base - 2, 6) clamped to the corpus size.
C22_AliceIsFactoid ==
    (/\ SmartKDone
     /\ rq.query = "Where was Alice born?"
     /\ rq.k = 8
     /\ rq.file_filter = None
     /\ OneFileCorpus)
    => /\ ComplexQueryType = FACTOID
       /\ actual_k = ClampToCorpus(Max(KBase(Len(corpus)) - 2, 6), Len(corpus))

\* clamp(requested_k, 6, 32)
ClampRequested(k) == Max(6, Min(k, 32))

\* C23: an explicit requested k > 0, 8 included, is used as
\* clamp(requested_k, 6, 32) without class adjustments.
C23_ExplicitKSkipsClasses ==
    SmartKDone => actual_k = ClampRequested(rq.k) /\ per_doc_quota = None

\* C24: for a query that is not classified SECTION_SUMMARY, BROAD_SUMMARY or
\* MULTI_DOC the section boost changes the score of no hit; where it is
\* applied it is 0.05 per matched term and at most 0.15.
C24_SectionBiasByClass ==
    rPc # "start" =>
        /\ ComplexQueryType \notin {SECTION_SUMMARY, BROAD_SUMMARY, MULTI_DOC}
            => ApplyFiltersAndBoosts(corpus, rq.file_boosts, rq.file_filter,
                                     section_boost_terms)
               = ApplyFiltersAndBoosts(corpus, rq.file_boosts, rq.file_filter, {})
        /\ \A i \in 1..Len(corpus) :
            LET matched == section_boost_terms \cap FileNameTerms(corpus[i].file_id)
            IN  CalculateSectionBoost(corpus[i].file_id, section_boost_terms)
                = Min(SECTION_TERM_BOOST * Cardinality(matched), SECTION_BOOST_CAP)

(***************************************************************************)
(* assemble_snippet and _safe_slice_text (service/retrieval_service.py).   *)
(***************************************************************************)
\* the empty string
EmptySnippet == [left |-> 0, right |-> 0, prefix |-> FALSE, suffix |-> FALSE]

\* _safe_slice_text, lines 271-292, on a text of n characters: text[left:right]
\* and the ellipses around it
safe_slice_text(n, start, end, w) ==
    IF n = 0 THEN EmptySnippet
    ELSE LET start_idx == Max(0, Min(start, n - 1))
             end_idx == Max(start_idx + 1, Min(end, n))
             mid == (start_idx + end_idx) \div 2
             left == Max(0, mid - w)
             right == Min(n, mid + w)
         IN  [left |-> left, right |-> right, prefix |-> left > 0, suffix |-> right < n]

\* assemble_snippet, lines 295-311: start and end are the metadata of the
\* hit, the text is the decrypted chunk; any exception gives the empty string
assemble_snippet_text(hit) ==
    IF ~hit.decrypts THEN EmptySnippet
    ELSE safe_slice_text(hit.n, hit.start, hit.end, SNIPPET_WINDOW_CHARS)

\* ingest_text_file, lines 91-110: the blob holds text[start:end] of the
\* normalized document, the metadata the offsets start and end
InitS ==
    /\ IngestInit
    /\ embed_cache = {}
    /\ OldPureIdle
    /\ RestIdleS
    /\ RIdle
    /\ snIn \in {h \in [n : 1..MaxChunkText, start : 0..MaxChunkStart,
                        end : 1..(MaxChunkStart + MaxChunkText), decrypts : BOOLEAN] :
                    h.end = h.start + h.n}
    /\ snOut = None

AssembleSnippet ==
    /\ snOut = None
    /\ snOut' = Some(assemble_snippet_text(snIn))
    /\ UNCHANGED <<ingestVars, oldPure, restS, snIn, rVars, fVars>>

NextS == AssembleSnippet

SpecS == InitS /\ [][NextS]_vars

\* the characters of a snippet, an ellipsis counted as one
SnippetLen(sn) ==
    (sn.right - sn.left) + (IF sn.prefix THEN 1 ELSE 0) + (IF sn.suffix THEN 1 ELSE 0)

\* the midpoint of the span [start, end] of the chunk, as an offset into its text
ChunkMid(hit) == ((hit.start + hit.end) \div 2) - hit.start

\* C25: for every chunk, also one that starts after offset 0 of its
\* document, the snippet is the window of SNIPPET_WINDOW_CHARS characters to
\* each side of the midpoint of the chunk's span, with an ellipsis on each
\* truncated side, at most 2 * SNIPPET_WINDOW_CHARS + 2 characters long.
C25_SnippetCentered ==
    (snOut # None /\ snIn.decrypts) =>
        LET sn == snOut[1]
        IN  /\ sn.left = Max(0, ChunkMid(snIn) - SNIPPET_WINDOW_CHARS)
            /\ sn.right = Min(snIn.n, ChunkMid(snIn) + SNIPPET_WINDOW_CHARS)
            /\ sn.prefix <=> sn.left > 0
            /\ sn.suffix <=> sn.right < snIn.n
            /\ SnippetLen(sn) <= 2 * SNIPPET_WINDOW_CHARS + 2

(***************************************************************************)
(* purge_vault (router/privacy_router.py) beside the background tasks of   *)
(* upload_file. run_ingestion is a plain function, which BackgroundTasks   *)
(* runs in a worker thread; purge_vault runs on the event loop. The steps  *)
(* of the two interleave freely.                                           *)
(***************************************************************************)
\* vectorstore.chroma_store.reset(): destructive, the index is empty afterwards
reset_vectorstore(idx) == {}

\* the trees purge_vault removes, in the order of line 144
PurgeTrees == <<"uploads", "chunks", "transcripts", "vectorstore">>

AfterTree(t) ==
    IF t = "uploads" THEN "chunks"
    ELSE IF t = "chunks" THEN "transcripts"
    ELSE IF t = "transcripts" THEN "vectorstore"
    ELSE "validate"

InitP ==
    /\ IngestInit
    /\ embed_cache = {}
    /\ OldPureIdle
    /\ RestIdleP
    /\ RIdle
    /\ purgePc = "reset"

\* lines 137-142: reset_vectorstore(), an exception of which is swallowed
PurgeReset ==
    /\ purgePc = "reset"
    /\ \E ok \in BOOLEAN : index' = IF ok THEN reset_vectorstore(index) ELSE index
    /\ purgePc' = "uploads"
    /\ UNCHANGED <<status, published, uploads_bin, uploads_meta, suffixOf, nextFile,
                   resp, pc, chunk_ids, blobs, transcripts, taskResult, upserted,
                   failedAt, invalidatedBy, errorEvent, embed_cache>>
    /\ UNCHANGED <<oldPure, restP, rVars, fVars>>

\* lines 144-149: shutil.rmtree of one of the four directories
PurgeTree ==
    /\ purgePc \in {PurgeTrees[i] : i \in 1..Len(PurgeTrees)}
    /\ uploads_bin' = IF purgePc = "uploads" THEN {} ELSE uploads_bin
    /\ uploads_meta' = IF purgePc = "uploads" THEN {} ELSE uploads_meta
    /\ blobs' = IF purgePc = "chunks" THEN {} ELSE blobs
    /\ transcripts' = IF purgePc = "transcripts" THEN {} ELSE transcripts
    /\ index' = IF purgePc = "vectorstore" THEN {} ELSE index
    /\ purgePc' = AfterTree(purgePc)
    /\ UNCHANGED <<status, published, suffixOf, nextFile, resp, pc, chunk_ids,
                   taskResult, upserted, failedAt, invalidatedBy, errorEvent,
                   embed_cache>>
    /\ UNCHANGED <<oldPure, restP, rVars, fVars>>

\* lines 150-153: validate_paths() recreates the empty directories, the
\* request is answered
PurgeValidate ==
    /\ purgePc = "validate"
    /\ purgePc' = "done"
    /\ UNCHANGED <<ingestVars, oldPure, restP, rVars, fVars>>

\* extract_text and transcribe_audio read uploads/<file_id><suffix>; without
\* the file they raise
ExtractStored(f) == f \in uploads_bin /\ Extract(f)

NextP ==
    \/ UploadAccept
    \/ \E f \in Files : StartTask(f)
    \/ \E f \in Files : ExtractStored(f)
    \/ \E f \in Files : Chunk(f)
    \/ \E f \in Files : EncryptChunk(f)
    \/ \E f \in Files : LoopDone(f)
    \/ \E f \in Files : Upsert(f)
    \/ \E f \in Files : PostComplete(f)
    \/ \E f \in Files : Finish(f)
    \/ \E f \in Files : Fail(f)
    \/ PurgeReset
    \/ PurgeTree
    \/ PurgeValidate

SpecP == InitP /\ [][NextP]_vars

\* the purge request was answered and no ingestion task is queued or running
PurgeAndTasksFinished ==
    /\ purgePc = "done"
    /\ \A f \in Files : pc[f] \in {"none", "done"}

\* C26: after a purge and the ingestions running beside it have finished,
\* the index holds no chunk id without its blob, and the chunk store holds
\* no blob of an ingestion reported complete that is missing from the index.
C26_PurgeAtomic ==
    PurgeAndTasksFinished =>
        /\ index \subseteq blobs
        /\ \A f \in Files :
            status[f].stage = COMPLETE => (IdsOf(f) \cap blobs) \subseteq index

(***************************************************************************)
(* get_or_create_key (service/encryption_service.py) called by parallel    *)
(* ingestions: each thread encrypts one chunk with encrypt_to_file and     *)
(* later reads it back with decrypt_file. The function holds no lock and   *)
(* keeps no key in memory; each statement is a step.                       *)
(***************************************************************************)
\* AESGCM.generate_key(bit_length=256): a key no other call draws
GenerateKey(t) == t

\* the variables of the encrypt/decrypt exchange other than the key file
eRest == <<ePlain, eData, eMod, eOut, ePc>>

InitG ==
    /\ IngestInit
    /\ embed_cache = {}
    /\ OldPureIdle
    /\ RestIdleG
    /\ RIdle
    /\ gPc = [t \in Threads |-> "exists"]
    /\ gKey = [t \in Threads |-> 0]
    /\ gCreated = {}
    /\ gBlob = [t \in Threads |-> 0]
    /\ gRead = [t \in Threads |-> "none"]

GUnchanged == UNCHANGED <<ingestVars, kVars, xVars, cVars, eRest, restG, rVars, fVars>>

\* line 25: key_path.exists()
KeyExists(t) ==
    /\ gPc[t] = "exists"
    /\ gPc' = [gPc EXCEPT ![t] = IF keyFile # None THEN "read" ELSE "generate"]
    /\ UNCHANGED <<keyFile, gKey, gCreated, gBlob, gRead>>
    /\ GUnchanged

\* line 26: return key_path.read_bytes(); AESGCM(key) of line 47 raises
\* ValueError for a key that is not 16, 24 or 32 bytes long
KeyRead(t) ==
    /\ gPc[t] = "read"
    /\ gKey' = [gKey EXCEPT ![t] = keyFile[1]]
    /\ gPc' = [gPc EXCEPT ![t] = IF keyFile[1] = 0 THEN "raised" ELSE "encrypt"]
    /\ UNCHANGED <<keyFile, gCreated, gBlob, gRead>>
    /\ GUnchanged

\* lines 28-29: a key is generated, the keystore directory is made
KeyGenerate(t) ==
    /\ gPc[t] = "generate"
    /\ gKey' = [gKey EXCEPT ![t] = GenerateKey(t)]
    /\ gCreated' = gCreated \cup {t}
    /\ gPc' = [gPc EXCEPT ![t] = "open"]
    /\ UNCHANGED <<keyFile, gBlob, gRead>>
    /\ GUnchanged

\* line 31: open(key_path, "wb") creates or truncates the file
KeyOpen(t) ==
    /\ gPc[t] = "open"
    /\ keyFile' = Some(0)
    /\ gPc' = [gPc EXCEPT ![t] = "write"]
    /\ UNCHANGED <<gKey, gCreated, gBlob, gRead>>
    /\ GUnchanged

\* lines 32-38: f.write(key), close, chmod, return key
KeyWrite(t) ==
    /\ gPc[t] = "write"
    /\ keyFile' = Some(gKey[t])
    /\ gPc' = [gPc EXCEPT ![t] = "encrypt"]
    /\ UNCHANGED <<gKey, gCreated, gBlob, gRead>>
    /\ GUnchanged

\* lines 47-50 and 66-67: the blob is encrypted under the key returned and
\* written to its file
EncryptToFile(t) ==
    /\ gPc[t] = "encrypt"
    /\ gBlob' = [gBlob EXCEPT ![t] = gKey[t]]
    /\ gPc' = [gPc EXCEPT ![t] = "stored"]
    /\ UNCHANGED <<keyFile, gKey, gCreated, gRead>>
    /\ GUnchanged

\* lines 70-72 and 53-61: decrypt_file of the blob, later: the key file
\* exists by now and is read; AESGCM raises for an empty key, decrypt raises
\* InvalidTag for a key other than the one of the blob
DecryptFile(t) ==
    /\ gPc[t] = "stored"
    /\ gRead' = [gRead EXCEPT ![t] = IF keyFile[1] = gBlob[t] THEN "ok" ELSE "raised"]
    /\ gPc' = [gPc EXCEPT ![t] = "done"]
    /\ UNCHANGED <<keyFile, gKey, gCreated, gBlob>>
    /\ GUnchanged

NextG ==
    \/ \E t \in Threads : KeyExists(t)
    \/ \E t \in Threads : KeyRead(t)
    \/ \E t \in Threads : KeyGenerate(t)
    \/ \E t \in Threads : KeyOpen(t)
    \/ \E t \in Threads : KeyWrite(t)
    \/ \E t \in Threads : EncryptToFile(t)
    \/ \E t \in Threads : DecryptFile(t)

SpecG == InitG /\ [][NextG]_vars

\* C27: the key is created at most once, every call of get_or_create_key
\* returns the same key, also when the first calls run in parallel before
\* the key file exists, and every blob written can be decrypted later.
C27_SingleKey ==
    /\ Cardinality(gCreated) <= 1
    /\ \A t, u \in Threads : gKey[t] # 0 /\ gKey[u] # 0 => gKey[t] = gKey[u]
    /\ \A t \in Threads : gPc[t] # "raised" /\ gRead[t] # "raised"

(***************************************************************************)
(* _embed_cache (service/retrieval_service.py): embed_query runs on the    *)
(* event loop, one call at a time; invalidate_retrieval_cache is called by *)
(* the ingestion tasks in worker threads. The module holds no lock; each   *)
(* statement on the dict is a step. One query string is followed.          *)
(***************************************************************************)
InitM ==
    /\ IngestInit
    /\ embed_cache = {}
    /\ OldPureIdle
    /\ RestIdleM
    /\ RIdle
    /\ mCache = None
    /\ mNow = 0
    /\ mPc = "idle"
    /\ mItem = None
    /\ mRet = None
    /\ mClears = 0

MUnchanged == UNCHANGED <<ingestVars, oldPure, restM, rVars, fVars>>

\* lines 240-242 and 221-226: embed_query calls _cache_get, which reads the
\* entry; without one the embedder is called
CacheGet ==
    /\ mPc = "idle"
    /\ mItem' = mCache
    /\ mPc' = IF mCache = None THEN "embed" ELSE "check"
    /\ UNCHANGED <<mCache, mNow, mRet, mClears>>
    /\ MUnchanged

\* the age of an entry written at ts
Age(ts) == mNow - ts

\* lines 227-231 and 243-244: an entry older than the TTL is to be evicted,
\* another one is returned
CacheCheck ==
    /\ mPc = "check"
    /\ IF Age(mItem[1]) > CACHE_TTL_SECONDS
       THEN /\ mPc' = "pop"
            /\ UNCHANGED mRet
       ELSE /\ mPc' = "idle"
            /\ mRet' = Some(Age(mItem[1]))
    /\ UNCHANGED <<mCache, mNow, mItem, mClears>>
    /\ MUnchanged

\* lines 229-230: _embed_cache.pop(key, None); return None
CachePop ==
    /\ mPc = "pop"
    /\ mCache' = None
    /\ mPc' = "embed"
    /\ UNCHANGED <<mNow, mItem, mRet, mClears>>
    /\ MUnchanged

\* lines 245-246: embed_queries([query])
EmbedQueries ==
    /\ mPc = "embed"
    /\ mPc' = "put"
    /\ UNCHANGED <<mCache, mNow, mItem, mRet, mClears>>
    /\ MUnchanged

\* lines 247-249 and 234-237: _cache_put, the fresh vector is returned
CachePut ==
    /\ mPc = "put"
    /\ mCache' = Some(mNow)
    /\ mRet' = Some(0)
    /\ mPc' = "idle"
    /\ UNCHANGED <<mNow, mItem, mClears>>
    /\ MUnchanged

\* lines 691-693, called by a completing ingestion: _embed_cache.clear()
InvalidateCache ==
    /\ mClears < MaxClears
    /\ mCache' = None
    /\ mClears' = mClears + 1
    /\ UNCHANGED <<mNow, mPc, mItem, mRet>>
    /\ MUnchanged

\* a second passes
Tick ==
    /\ mNow < MaxClock
    /\ mNow' = mNow + 1
    /\ UNCHANGED <<mCache, mPc, mItem, mRet, mClears>>
    /\ MUnchanged

NextM ==
    \/ CacheGet
    \/ CacheCheck
    \/ CachePop
    \/ EmbedQueries
    \/ CachePut
    \/ InvalidateCache
    \/ Tick

SpecM == InitM /\ [][NextM]_vars

\* the event loop is inside the eviction of _cache_get, between reading the
\* entry and popping it
InEviction == mPc \in {"check", "pop"}

\* C28: the mutations of the cache exclude each other, so that the cache is
\* not cleared while _cache_get is between reading an entry and evicting it,
\* and no read returns an entry older than CACHE_TTL_SECONDS.
C28_CacheMutex ==
    [][/\ mClears' # mClears => ~InEviction
       /\ mRet' # None => mRet'[1] <= CACHE_TTL_SECONDS]_vars

(***************************************************************************)
(* rewrite_question and summarize_turn (service/cqr_service.py) over       *)
(* LLMService.ask_llm and MistralApiProvider.ask_llm. Texts are kept by    *)
(* their length; the remote API is given by its answer to each attempt.    *)
(***************************************************************************)
\* what one POST /v1/chat/completions can end with: HTTP 200, a connect or
\* timeout error of httpx, a status >= 500, 429, another status but 200
ApiOutcomes == {"200", "connect", "5xx", "429", "4xx"}

\* MistralApiProvider.ask_llm, lines 124-154: the attempts 0, 1, 2; result
\* is what the call returns or raises, record what it tells the circuit breaker
RECURSIVE ProviderAttempts(_, _)
ProviderAttempts(resps, attempt) ==
    IF attempt > 2
    THEN [result |-> "LLMUnavailableError", record |-> "none"]
    ELSE LET r == resps[attempt + 1]
         IN  IF r = "200" THEN [result |-> "response", record |-> "success"]
             ELSE IF r = "429" THEN ProviderAttempts(resps, attempt + 1)
             ELSE IF attempt < 2 THEN ProviderAttempts(resps, attempt + 1)
             ELSE [result |-> IF r = "4xx" THEN "RuntimeError"
                              ELSE "LLMUnavailableError",
                   record |-> "failure"]

\* MistralApiProvider.ask_llm, lines 100-154
provider_ask_llm(circuit, resps) ==
    IF circuit THEN [result |-> "LLMUnavailableError", record |-> "none"]
    ELSE ProviderAttempts(resps, 0)

\* _record_failure and _record_success, lines 61-69, on <<_fail_count, open>>
ProviderAfter(fail, circuit, record) ==
    IF record = "failure"
    THEN IF fail + 1 >= 3 THEN <<0, TRUE>> ELSE <<fail + 1, circuit>>
    ELSE IF record = "success" THEN <<0, FALSE>>
    ELSE <<fail, circuit>>

\* LLMService.ask_llm, lines 53-69: LLMUnavailableError becomes LLMError,
\* no provider is LLMError, anything else passes
service_ask_llm(provider, circuit, resps) ==
    IF ~provider THEN "LLMError"
    ELSE LET r == provider_ask_llm(circuit, resps).result
         IN  IF r = "LLMUnavailableError" THEN "LLMError" ELSE r

\* rewrite_question, lines 31-54: without history the question is returned
\* and no model is asked; LLMError gives the question back
rewrite_question(call, provider, circuit) ==
    IF ~call.has_history
    THEN [llm |-> "not_called", kind |-> "original", len |-> 0]
    ELSE LET r == service_ask_llm(provider, circuit, call.resps)
         IN  IF r = "response" THEN [llm |-> r, kind |-> "rewritten", len |-> call.content_len]
             ELSE IF r = "LLMError" THEN [llm |-> r, kind |-> "original", len |-> 0]
             ELSE [llm |-> r, kind |-> "raised", len |-> 0]

\* summarize_turn, lines 57-76: LLMError gives answer[:max_chars]
summarize_turn(call, provider, circuit, max_chars) ==
    LET r == service_ask_llm(provider, circuit, call.resps)
    IN  IF r = "response"
        THEN [llm |-> r, kind |-> "summary", len |-> Min(call.content_len, max_chars)]
        ELSE IF r = "LLMError"
        THEN [llm |-> r, kind |-> "trimmed_answer", len |-> Min(call.answer_len, max_chars)]
        ELSE [llm |-> r, kind |-> "raised", len |-> 0]

InitL ==
    /\ IngestInit
    /\ embed_cache = {}
    /\ OldPureIdle
    /\ RestIdleL
    /\ RIdle
    /\ lProvider \in BOOLEAN
    /\ lFail = 0
    /\ lCircuit = FALSE
    /\ lIn = NoLlmCall
    /\ lOut = NoLlmResult

LUnchanged == UNCHANGED <<ingestVars, oldPure, restL, rVars, fVars>>

\* the calls: rewrite_question with and without history, summarize_turn
\* with answers and model texts within and beyond max_chars
LlmCalls(fn) ==
    IF fn = "rewrite"
    THEN [fn : {fn}, has_history : BOOLEAN, answer_len : {0}, content_len : {1},
          resps : [1..3 -> ApiOutcomes]]
    ELSE [fn : {fn}, has_history : {TRUE}, answer_len : {1, MaxSummaryChars + 1},
          content_len : {0, MaxSummaryChars + 1}, resps : [1..3 -> ApiOutcomes]]

\* the provider state after a call that reached the provider
ProviderStateAfter(call, asked) ==
    IF asked /\ lProvider /\ ~lCircuit
    THEN ProviderAfter(lFail, lCircuit, ProviderAttempts(call.resps, 0).record)
    ELSE <<lFail, lCircuit>>

\* chat_router.ask_question line 52: an exception of rewrite_question ends
\* the request with HTTP 500 (lines 261-268)
RewriteQuestion ==
    \E call \in LlmCalls("rewrite") :
        LET out == rewrite_question(call, lProvider, lCircuit)
            after == ProviderStateAfter(call, call.has_history)
        IN  /\ lIn' = call
            /\ lOut' = [llm |-> out.llm, kind |-> out.kind, len |-> out.len,
                        request |-> IF out.kind = "raised" THEN "500" ELSE "continues"]
            /\ lFail' = after[1]
            /\ lCircuit' = after[2]
            /\ UNCHANGED lProvider
            /\ LUnchanged

\* chat_router.ask_question lines 250-256: an exception of summarize_turn is
\* dropped with the summary, the request is answered
SummarizeTurn ==
    \E call \in LlmCalls("summarize") :
        LET out == summarize_turn(call, lProvider, lCircuit, MaxSummaryChars)
            after == ProviderStateAfter(call, TRUE)
        IN  /\ lIn' = call
            /\ lOut' = [llm |-> out.llm, kind |-> out.kind, len |-> out.len,
                        request |-> "answered"]
            /\ lFail' = after[1]
            /\ lCircuit' = after[2]
            /\ UNCHANGED lProvider
            /\ LUnchanged

\* lines 58-59: the 30 seconds of an open circuit pass
CircuitCloses ==
    /\ lCircuit
    /\ lCircuit' = FALSE
    /\ UNCHANGED <<lProvider, lFail, lIn, lOut>>
    /\ LUnchanged

NextL ==
    \/ RewriteQuestion
    \/ SummarizeTurn
    \/ CircuitCloses

SpecL == InitL /\ [][NextL]_vars

\* the remote model was needed and gave no answer
ModelFailed == lOut.llm \notin {"none", "not_called", "response"}

\* C29: whatever way the remote model fails, rewrite_question returns the
\* original question, summarize_turn returns the answer cut to max_chars,
\* and neither raises to the chat request.
C29_GracefulDegradation ==
    ModelFailed =>
        /\ lOut.kind # "raised"
        /\ lOut.request # "500"
        /\ lIn.fn = "rewrite" => lOut.kind = "original"
        /\ lIn.fn = "summarize" =>
            /\ lOut.kind = "trimmed_answer"
            /\ lOut.len = Min(lIn.answer_len, MaxSummaryChars)

=============================================================================
